---- MODULE Spec2Model ----
(***************************************************************************)
(* A model of migoku's session / mirror manager:                           *)
(*   - Cache              (handlers.go)      the TTL result cache          *)
(*   - FirebaseAuthToken  (migaku_api.go)    the renewable credential      *)
(*   - MigakuClient       (client.go)        the mirror handle and refresh *)
(*   - MigakuService      (service.go, word status write-back)             *)
(*   - Application        (login / logout / authMiddleware registry)       *)
(* Each component has its own specification (SpecCache, SpecToken, Spec,   *)
(* SpecService, SpecApp); a specification leaves the variables of the      *)
(* other components unchanged.  Time is a global integer clock `now`       *)
(* counted in seconds.                                                     *)
(***************************************************************************)
EXTENDS Integers, Sequences, FiniteSets, TLC

\* ---------------------------------------------------------------- bounds
\* The clock runs from 0 to MaxNow.
MaxNow == 5
MaxNowLoop == 7
MaxNowStale == 15
LoopTTL == 7
\* The configured cache ttl (CACHE_TTL), which is also the refresh ttl.
CacheTTL == 3
\* Number of goroutines calling the token concurrently.
NCallers == 2
\* Snapshot downloads one client starts, the first one of NewMigakuClient included.
MaxDownloads == 3
MaxClients == 3
MaxEmailLen == 3
\* The largest number a row's cell holds.
MaxCell == 2

None == "none"

VARIABLES
  now,          \* the wall clock, time.Now()
  \* ---- Cache
  cache,        \* Cache.cache: a function from the present keys to entries
  cacheMuR,     \* goroutines holding Cache.mu.RLock
  cpc,          \* per cache goroutine: "idle" or "get" (inside Get, RLock held)
  cKey,         \* the key of the Get in progress
  cRes,         \* the result of the last completed Get, with its history
  lastSet,      \* history: per key the last Set not followed by Clear
  \* ---- FirebaseAuthToken
  tokMu,        \* holder of FirebaseAuthToken.mu, or 0
  authToken,    \* FirebaseAuthToken.authToken; 0 is the empty string
  refreshToken, \* FirebaseAuthToken.refreshToken
  expiresAt,    \* FirebaseAuthToken.expiresAt
  tpc,          \* per caller: position in get / refresh
  tOp,          \* per caller: "get" or "refresh"
  tRes,         \* per caller: the (token, err) returned
  tCalls,       \* per caller: renewal network calls it issued
  tEntry,       \* per caller: what held when it entered its call
  renewCalls,   \* renewal network calls issued in total
  \* ---- MigakuClient (with the files under dbPath and dbPath+".tmp")
  cmuW,         \* holder of MigakuClient.mu.Lock, or None
  cmuR,         \* goroutines holding MigakuClient.mu.RLock
  db,           \* MigakuClient.db: an index into handles, 0 is nil
  handles,      \* every *sqlx.DB opened so far: the file it reads, open or closed
  inodes,       \* every file created so far: its content, 0 while incomplete
  fDb,          \* the file at dbPath (index into inodes), 0 when absent
  fTmp,         \* the file at dbPath+".tmp", 0 when absent
  lastRefresh,  \* MigakuClient.lastRefresh
  cancelled,    \* refreshCtx is cancelled (refreshStop was called)
  closed,       \* how the session was closed: None, "close" or "logout"
  nextTick,     \* the instant of the ticker's next tick
  refreshTTL,   \* the ttl NewMigakuClient was called with (the ticker's period)
  reqDone,      \* per HTTP request: its context is cancelled
  pc,           \* per goroutine: its position
  rData,        \* per refresher: the snapshot it downloaded
  rIno,         \* per refresher: the file its os.WriteFile is writing
  rH,           \* per refresher: newDB
  rErr,         \* per refresher: what its last refresh returned
  qH,           \* the reader's db (the handle its query runs against)
  qSnap,        \* the content of that handle's file when the reader took it
  dlCount,      \* snapshot downloads started so far
  dlLast,       \* the last download start: was db open, and the mirror's age
  afterClose,   \* downloads started and installs done after the session closed
  rBase,        \* per refresher: db, lastRefresh and dbEpoch when its refreshDB began
  dbEpoch,      \* how often client.db has been assigned
  \* ---- MigakuService: word status write-back and cached reads
  mirror,       \* the WordList rows of the installed mirror, per dictForm
  remote,       \* the WordList rows on the sync server
  spc,          \* per service goroutine: its position
  wArgs,        \* setWordStatusItems: the arguments it was called with
  wItems,       \* setWordStatusItems: the normalized items
  wStatus,      \* setWordStatusItems: the status argument
  wIdx,         \* setWordStatusItems: index of the item / record being handled
  wRecs,        \* setWordStatusItems: updateRecords
  wErr,         \* setWordStatusItems: None while running, then what it returned
  wCount,       \* PushSync calls, UPDATEs and cache Clears made by the call
  wMissing,     \* an item of the call had no matching row when it was looked up
  updEpoch,     \* UPDATE statements executed on the mirror so far
  okEpoch,      \* updEpoch when the last successful write returned
  sSnap,        \* per refresher: the snapshot it downloaded
  sDl,          \* snapshot downloads started by the service goroutines
  rdObs,        \* the cached reader: what its query read from the mirror
  rdRes,        \* the cached reader: the last cache Get that hit
  \* ---- Application: login, logout and the accounts registry
  accounts,     \* app.accounts: api key -> client (0: no entry)
  clients,      \* every MigakuClient constructed so far
  appFiles,     \* the paths that exist in the migoku-db directory
  hpc,          \* per login request: its position in handleLogin
  hCred,        \* per login request: the password it carries
  hSign,        \* per login request: how the sign-in exchange ended
  hNew,         \* per login request: the client NewMigakuClient returned (0: nil)
  hDl,          \* per login request: snapshot downloads it attempted
  hFiles,       \* per login request: the paths it created
  hRes,         \* per login request: the response it wrote
  hCons,        \* per login request: what its NewMigakuClient call did
  accBusy,      \* per request: the access to app.accounts it is inside of
  lpc,          \* the logout request: its position in handleLogout
  lKey,         \* the logout request: its X-Api-Key
  lDb,          \* the logout request: the client its lookup found
  lRes,         \* the logout request: the response it wrote
  qKey,         \* the request through authMiddleware: its X-Api-Key
  qRes,         \* the request through authMiddleware: 401 or the handler
  loggedOut,    \* the api keys whose last registry change was a logout
  \* ---- MigakuSession: one authorized request
  rpc,          \* doAuthorizedJSONRequest: its position
  rSends,       \* doJSONRequest calls it has made
  rForced,      \* s.auth.refresh calls it has made
  rFirst,       \* status of its first response (None: none yet)
  rSecond,      \* its second response (None: none yet)
  rOut,         \* what it returned
  \* ---- scope keys of two principals
  kEmail,       \* per principal: the email, as its sequence of code points
  kKey,         \* per principal: MigakuClient.key (empty: not constructed yet)
  kPath,        \* per principal: MigakuClient.dbPath
  kScoped,      \* per principal: scopedCacheKey(client, "decks")
  \* ---- lookupWordRecord: one row through normalizeRow
  nrRaw,        \* the row runReadRow returned
  nrOut,        \* normalizeRow's result
  nrPc,         \* "idle", "fetched", "done"
  \* ---- GetStudyStats: one call
  stPc,         \* its position: "idle", "query", "set", "done"
  stObs,        \* the mirror as each of its queries so far read it
  \* ---- the three locks and the goroutines that take them
  lkScript,     \* per goroutine: the lock operations of the call it makes
  lkPos,        \* per goroutine: the operation it is at (0: not called yet)
  lkW,          \* per lock: the goroutine holding it exclusively (None: nobody)
  lkR,          \* per lock: the goroutines holding it shared
  lkWait        \* per lock: the goroutines blocked in Lock()

cacheVars == <<cache, cacheMuR, cpc, cKey, cRes, lastSet>>
tokenVars == <<tokMu, authToken, refreshToken, expiresAt, tpc, tOp, tRes, tCalls, tEntry, renewCalls>>
cacheRest == <<cacheMuR, cpc, cKey, cRes, lastSet>>
clientRest == <<cmuW, cmuR, db, handles, inodes, fDb, fTmp, cancelled, closed, pc,
                rData, rIno, rH, rErr, qH, qSnap, dlCount, dlLast, afterClose,
                rBase, dbEpoch>>
clientVars == <<lastRefresh, nextTick, clientRest>>
svcVars == <<mirror, remote, spc, wArgs, wItems, wStatus, wIdx, wRecs, wErr, wCount, wMissing,
             updEpoch, okEpoch, sSnap, sDl, rdObs, rdRes>>
regVars == <<lpc, lKey, lDb, lRes, qKey, qRes>>
appVars == <<accounts, clients, appFiles, hpc, hCred, hSign, hNew, hDl, hFiles, hRes, hCons,
             accBusy, regVars, loggedOut>>
sessVars == <<rpc, rSends, rForced, rFirst, rSecond, rOut>>
keyVars == <<kEmail, kKey, kPath, kScoped>>
rowVars == <<nrRaw, nrOut, nrPc>>
statVars == <<stPc, stObs>>
lockVars == <<lkScript, lkPos, lkW, lkR, lkWait>>
vars == <<now, refreshTTL, reqDone, cacheVars, tokenVars, clientVars, svcVars, appVars, sessVars, keyVars, rowVars, statVars, lockVars>>

\* ------------------------------------------------------------------ clock
\* What an action of one component leaves alone.
OnlyCache == UNCHANGED <<now, refreshTTL, reqDone, tokenVars, clientVars, svcVars, appVars, sessVars, keyVars, rowVars, statVars, lockVars>>
OnlyToken == UNCHANGED <<now, refreshTTL, reqDone, cacheVars, clientVars, svcVars, appVars, sessVars, keyVars, rowVars, statVars, lockVars>>
OnlyClient == UNCHANGED <<now, refreshTTL, reqDone, cacheVars, tokenVars, svcVars, appVars, sessVars, keyVars, rowVars, statVars, lockVars>>
OnlyService == UNCHANGED <<now, refreshTTL, reqDone, tokenVars, cacheRest, clientRest, appVars, sessVars, keyVars, rowVars, statVars, lockVars>>
OnlyApp == UNCHANGED <<now, refreshTTL, reqDone, cacheVars, tokenVars, clientVars, svcVars, sessVars, keyVars, rowVars, statVars, lockVars>>
OnlySession == UNCHANGED <<now, refreshTTL, reqDone, cacheVars, clientVars, svcVars, appVars, keyVars, rowVars, statVars, lockVars>>
OnlyKeys == UNCHANGED <<now, refreshTTL, reqDone, cacheVars, tokenVars, clientVars, svcVars, appVars, sessVars, rowVars, statVars, lockVars>>
OnlyRows == UNCHANGED <<now, refreshTTL, reqDone, cacheVars, tokenVars, clientVars, svcVars, appVars, sessVars, keyVars, statVars, lockVars>>
OnlyStats == UNCHANGED <<now, refreshTTL, reqDone, tokenVars, cacheRest, clientRest, svcVars, appVars, sessVars, keyVars, rowVars, lockVars>>
OnlyLocks == UNCHANGED <<now, refreshTTL, reqDone, cacheVars, tokenVars, clientVars, svcVars, appVars, sessVars, keyVars, rowVars, statVars>>

Tick ==
  /\ now < MaxNow
  /\ now' = now + 1
  /\ UNCHANGED <<refreshTTL, reqDone, cacheVars, tokenVars, clientVars, svcVars, appVars, sessVars, keyVars, rowVars, statVars, lockVars>>

\* The clock of the specification that follows the refresh loop over two ticks.
TickLoop ==
  /\ now < MaxNowLoop
  /\ now' = now + 1
  /\ UNCHANGED <<refreshTTL, reqDone, cacheVars, tokenVars, clientVars, svcVars, appVars, sessVars, keyVars, rowVars, statVars, lockVars>>

\* The clock of the specification that follows the refresh loop of a session
\* opened with ttl = LoopTTL.
TickStale ==
  /\ now < MaxNowStale
  /\ now' = now + 1
  /\ UNCHANGED <<refreshTTL, reqDone, cacheVars, tokenVars, clientVars, svcVars, appVars, sessVars, keyVars, rowVars, statVars, lockVars>>

\* ================================================================== Cache
Keys == {"decks", "words"}
Vals == {1, 2}
CProcs == {"g1", "g2"}
\* History of a key: no Set since the last Clear, or the last Set's value and time.
NoSet == [valid |-> FALSE, data |-> 0, at |-> 0]
NoRes == [key |-> None, ok |-> FALSE, data |-> 0, at |-> 0, set |-> NoSet]

\* Mutant of NewCacheEntry: the ttl is not added to the expiry.
NewCacheEntry_NoTTL(v, t, ttl) == [Data |-> v, ExpiresAt |-> t]

\* CacheEntry{Data, ExpiresAt} as built by Set.
NewCacheEntry(v, t, ttl) == [Data |-> v, ExpiresAt |-> t + ttl]

\* time.Now().After(entry.ExpiresAt)
EntryExpired(e, t) == t > e.ExpiresAt

\* The (value, ok) pair Get returns for key k at time t.
CacheLookup(c, k, t) ==
  IF k \notin DOMAIN c THEN [ok |-> FALSE, data |-> 0]
  ELSE IF EntryExpired(c[k], t) THEN [ok |-> FALSE, data |-> 0]
  ELSE [ok |-> TRUE, data |-> c[k].Data]

\* Mutant of CacheAfterGet: the Get sweeps every expired entry out of the map.
CacheAfterGet_Sweep(c, k, t) ==
  [x \in {y \in DOMAIN c : ~EntryExpired(c[y], t)} |-> c[x]]

\* The map after Get(k) at time t: an expired entry is deleted.
CacheAfterGet(c, k, t) ==
  IF k \in DOMAIN c /\ EntryExpired(c[k], t)
  THEN [x \in DOMAIN c \ {k} |-> c[x]]
  ELSE c

\* The map after Set(k, v) at time t.
CacheAfterSet(c, k, v, t, ttl) ==
  [x \in DOMAIN c \cup {k} |-> IF x = k THEN NewCacheEntry(v, t, ttl) ELSE c[x]]

\* The map after Clear().
CacheAfterClear(c) == [x \in {} |-> 0]

CacheInit ==
  /\ cache = [x \in {} |-> 0]
  /\ cacheMuR = {}
  /\ cpc = [g \in CProcs |-> "idle"]
  /\ cKey = [g \in CProcs |-> None]
  /\ cRes = NoRes
  /\ lastSet = [k \in Keys |-> NoSet]

\* Get: c.mu.RLock()
CacheGetRLock(g, k) ==
  /\ cpc[g] = "idle"
  /\ cpc' = [cpc EXCEPT ![g] = "get"]
  /\ cKey' = [cKey EXCEPT ![g] = k]
  /\ cacheMuR' = cacheMuR \cup {g}
  /\ UNCHANGED <<cache, cRes, lastSet>>
  /\ OnlyCache

\* Get: the lookup, the delete of an expired entry, the deferred RUnlock.
CacheGetBody(g) ==
  /\ cpc[g] = "get"
  /\ LET k == cKey[g]
         r == CacheLookup(cache, k, now)
     IN /\ cache' = CacheAfterGet(cache, k, now)
        /\ cRes' = [key |-> k, ok |-> r.ok, data |-> r.data, at |-> now,
                    set |-> lastSet[k]]
  /\ cpc' = [cpc EXCEPT ![g] = "idle"]
  /\ cKey' = [cKey EXCEPT ![g] = None]
  /\ cacheMuR' = cacheMuR \ {g}
  /\ UNCHANGED lastSet
  /\ OnlyCache

\* Get's delete(c.cache, key) while another goroutine is inside Get under its
\* own read lock is an unsynchronised map write: besides going through (above)
\* the runtime may stop the process with "concurrent map read and map write".
CacheGetFatal(g) ==
  /\ cpc[g] = "get"
  /\ cKey[g] \in DOMAIN cache /\ EntryExpired(cache[cKey[g]], now)
  /\ cacheMuR \ {g} # {}
  /\ cpc' = [x \in CProcs |-> "dead"]
  /\ UNCHANGED <<cache, cacheMuR, cKey, cRes, lastSet>>
  /\ OnlyCache

\* Set: under c.mu.Lock(), which excludes every reader.
CacheSet(g, k, v) ==
  /\ cpc[g] = "idle"
  /\ cacheMuR = {}
  /\ cache' = CacheAfterSet(cache, k, v, now, CacheTTL)
  /\ lastSet' = [lastSet EXCEPT ![k] = [valid |-> TRUE, data |-> v, at |-> now]]
  /\ UNCHANGED <<cacheMuR, cpc, cKey, cRes>>
  /\ OnlyCache

\* Clear: under c.mu.Lock().
CacheClear(g) ==
  /\ cpc[g] = "idle"
  /\ cacheMuR = {}
  /\ cache' = CacheAfterClear(cache)
  /\ lastSet' = [k \in Keys |-> NoSet]
  /\ UNCHANGED <<cacheMuR, cpc, cKey, cRes>>
  /\ OnlyCache

\* ====================================================== FirebaseAuthToken
TProcs == 1..NCallers
\* Seconds subtracted from the nominal expiry.
TokenBuffer == 5
\* Lifetime assumed when expires_in is missing, unparsable or <= 0.
DefaultExpiresIn == 3600
\* expires_in values the token endpoint may answer with.
ExpiresInVals == {0, 3, 3600}
\* Renewal outcomes: a 200 answer with its expires_in, or a failure.
RenewFailures == {"transport", "non200", "badjson"}
\* expiresAt of the token acquired at sign-in, as a clock value.
InitialExpiry == 2
NoTRes == [token |-> 0, err |-> None]

\* strconv.Atoi(res.ExpiresIn) with the <= 0 default.
ExpiresInSec(e) == IF e <= 0 THEN DefaultExpiresIn ELSE e

\* time.Now().Before(t.expiresAt) && t.authToken != ""
TokenFresh(tok, exp, t) == t < exp /\ tok # 0

\* What refreshLocked returns on a failure: "" and the error.
FailedResult_Stale(tok, f) == [token |-> tok, err |-> f]
FailedResult(tok, f) == [token |-> 0, err |-> f]

\* Mutant of MuFree: a caller does not wait for the mutex.
MuFree_Any(m) == TRUE

\* t.mu.Lock() returns: no goroutine holds the mutex.
MuFree(m) == m = 0

TokenInit ==
  /\ tokMu = 0
  /\ authToken = 1
  /\ refreshToken = 1
  /\ expiresAt = InitialExpiry
  /\ tpc = [p \in TProcs |-> "idle"]
  /\ tOp = [p \in TProcs |-> None]
  /\ tRes = [p \in TProcs |-> NoTRes]
  /\ tCalls = [p \in TProcs |-> 0]
  /\ tEntry = [p \in TProcs |-> [expired |-> FALSE, calls |-> 0]]
  /\ renewCalls = 0

\* A goroutine calls get(ctx) or refresh(ctx) and blocks on t.mu.Lock().
TokenCall(p, op) ==
  /\ tpc[p] = "idle"
  /\ tpc' = [tpc EXCEPT ![p] = "lock"]
  /\ tOp' = [tOp EXCEPT ![p] = op]
  /\ tEntry' = [tEntry EXCEPT ![p] =
                  [expired |-> ~TokenFresh(authToken, expiresAt, now),
                   calls |-> renewCalls]]
  /\ UNCHANGED <<tokMu, authToken, expiresAt, tRes, tCalls, renewCalls>>
  /\ UNCHANGED refreshToken
  /\ OnlyToken

\* get: the mutex is acquired and the token is fresh: return it, unlock.
TokenGetFresh(p) ==
  /\ tpc[p] = "lock" /\ tOp[p] = "get"
  /\ MuFree(tokMu)
  /\ TokenFresh(authToken, expiresAt, now)
  /\ tRes' = [tRes EXCEPT ![p] = [token |-> authToken, err |-> None]]
  /\ tpc' = [tpc EXCEPT ![p] = "done"]
  /\ UNCHANGED <<tokMu, authToken, expiresAt, tOp, tCalls, tEntry, renewCalls>>
  /\ UNCHANGED refreshToken
  /\ OnlyToken

\* get on a stale token, or refresh: the mutex is acquired and refreshLocked
\* sends the renewal request.
TokenRenewStart(p) ==
  /\ tpc[p] = "lock"
  /\ MuFree(tokMu)
  /\ tOp[p] = "get" => ~TokenFresh(authToken, expiresAt, now)
  /\ tokMu' = p
  /\ tpc' = [tpc EXCEPT ![p] = "renewing"]
  /\ tCalls' = [tCalls EXCEPT ![p] = @ + 1]
  /\ renewCalls' = renewCalls + 1
  /\ UNCHANGED <<authToken, expiresAt, tOp, tRes, tEntry>>
  /\ UNCHANGED refreshToken
  /\ OnlyToken

\* refreshLocked: a 200 answer; the fields are replaced, the mutex released.
TokenRenewOk(p, e) ==
  /\ tpc[p] = "renewing"
  /\ authToken' = authToken + 1
  /\ expiresAt' = now + (ExpiresInSec(e) - TokenBuffer)
  /\ tRes' = [tRes EXCEPT ![p] = [token |-> authToken + 1, err |-> None]]
  /\ tokMu' = 0
  /\ tpc' = [tpc EXCEPT ![p] = "done"]
  /\ UNCHANGED <<tOp, tCalls, tEntry, renewCalls>>
  /\ UNCHANGED refreshToken
  /\ OnlyToken

\* refreshLocked: transport error, non-200 status or unparsable body.
TokenRenewFail(p, f) ==
  /\ tpc[p] = "renewing"
  /\ tRes' = [tRes EXCEPT ![p] = FailedResult(authToken, f)]
  /\ tokMu' = 0
  /\ tpc' = [tpc EXCEPT ![p] = "done"]
  /\ UNCHANGED <<authToken, expiresAt, tOp, tCalls, tEntry, renewCalls>>
  /\ UNCHANGED refreshToken
  /\ OnlyToken

\* =========================================================== MigakuSession
\* The goroutine that runs doAuthorizedJSONRequest.
ReqProc == 1
\* What doJSONRequest can come back with: a status, or a transport error.
Statuses_HTTP == {"200", "401", "403", "500"}
NetErr == "neterr"
NoOut == [status |-> None, err |-> None, from |-> 0]

\* status == http.StatusUnauthorized || status == http.StatusForbidden
ShouldRetry_Any(st) == TRUE
ShouldRetry(st) == st \in {"401", "403"}

SessionInit ==
  /\ rpc = "idle"
  /\ rSends = 0 /\ rForced = 0
  /\ rFirst = None /\ rSecond = None
  /\ rOut = NoOut

\* doAuthorizedJSONRequest is called: s.auth.get(ctx).
ReqBegin ==
  /\ rpc = "idle" /\ tpc[ReqProc] = "idle"
  /\ rpc' = "get"
  /\ tpc' = [tpc EXCEPT ![ReqProc] = "lock"]
  /\ tOp' = [tOp EXCEPT ![ReqProc] = "get"]
  /\ tEntry' = [tEntry EXCEPT ![ReqProc] =
                  [expired |-> ~TokenFresh(authToken, expiresAt, now),
                   calls |-> renewCalls]]
  /\ UNCHANGED <<tokMu, authToken, refreshToken, expiresAt, tRes, tCalls, renewCalls>>
  /\ UNCHANGED <<rSends, rForced, rFirst, rSecond, rOut>>
  /\ OnlySession

\* s.auth.get failed: return nil, 0, err.
ReqGetFailed ==
  /\ rpc = "get" /\ tpc[ReqProc] = "done" /\ tRes[ReqProc].err # None
  /\ rOut' = [status |-> None, err |-> tRes[ReqProc].err, from |-> 0]
  /\ rpc' = "done"
  /\ UNCHANGED <<tokenVars, rSends, rForced, rFirst, rSecond>>
  /\ OnlySession

\* The first doJSONRequest with the token from get: a transport error or a
\* status other than 401 / 403 is returned; 401 / 403 leads to s.auth.refresh.
ReqSendFirst(r) ==
  /\ rpc = "get" /\ tpc[ReqProc] = "done" /\ tRes[ReqProc].err = None
  /\ rSends' = rSends + 1
  /\ rFirst' = r
  /\ IF r = NetErr
     THEN /\ rOut' = [status |-> None, err |-> NetErr, from |-> 1]
          /\ rpc' = "done"
          /\ UNCHANGED <<tokenVars, rForced>>
     ELSE IF ~ShouldRetry(r)
     THEN /\ rOut' = [status |-> r, err |-> None, from |-> 1]
          /\ rpc' = "done"
          /\ UNCHANGED <<tokenVars, rForced>>
     ELSE /\ rpc' = "refresh"
          /\ rForced' = rForced + 1
          /\ tpc' = [tpc EXCEPT ![ReqProc] = "lock"]
          /\ tOp' = [tOp EXCEPT ![ReqProc] = "refresh"]
          /\ tEntry' = [tEntry EXCEPT ![ReqProc] =
                          [expired |-> ~TokenFresh(authToken, expiresAt, now),
                           calls |-> renewCalls]]
          /\ UNCHANGED <<tokMu, authToken, refreshToken, expiresAt, tRes, tCalls,
                         renewCalls, rOut>>
  /\ UNCHANGED rSecond
  /\ OnlySession

\* s.auth.refresh failed: return respBody, status, err of the first response.
ReqRefreshFailed ==
  /\ rpc = "refresh" /\ tpc[ReqProc] = "done" /\ tRes[ReqProc].err # None
  /\ rOut' = [status |-> rFirst, err |-> tRes[ReqProc].err, from |-> 1]
  /\ rpc' = "done"
  /\ UNCHANGED <<tokenVars, rSends, rForced, rFirst, rSecond>>
  /\ OnlySession

\* The second doJSONRequest, with the renewed token: its result is returned.
ReqSendSecond(r) ==
  /\ rpc = "refresh" /\ tpc[ReqProc] = "done" /\ tRes[ReqProc].err = None
  /\ rSends' = rSends + 1
  /\ rSecond' = r
  /\ rOut' = IF r = NetErr THEN [status |-> None, err |-> NetErr, from |-> 2]
             ELSE [status |-> r, err |-> None, from |-> 2]
  /\ rpc' = "done"
  /\ UNCHANGED <<tokenVars, rForced, rFirst>>
  /\ OnlySession

\* ============================================================ MigakuClient
Refreshers == {"loop", "w"}
Procs == Refreshers \cup {"r", "x"}
\* buffer := 2 * time.Second
StaleBuffer == 2
NoStart == [dbOpen |-> FALSE, age |-> 0]
NoBase == [db |-> 0, last |-> 0, epoch |-> 0]

\* threshold := max(ttl-buffer, 0)
StaleThreshold(ttl) == IF ttl - StaleBuffer > 0 THEN ttl - StaleBuffer ELSE 0

\* isRefreshStale: time.Since(last) >= threshold
IsRefreshStale(last, t, threshold) == t - last >= threshold

\* refreshDBIfStale's decision to call refreshDB.
RefreshNeeded(last, t, ttl) ==
  ttl > 0 /\ IsRefreshStale(last, t, StaleThreshold(ttl))

\* c.mu.RLock() can be taken / c.mu.Lock() can be taken.
CanRLock == cmuW = None
CanLock == cmuW = None /\ cmuR = {}

\* The HTTP requests whose contexts the client's code receives: the login
\* request that called NewMigakuClient, and a word status request.
Requests == {"login", "w"}

\* Mutant of CtxDone: the loop's context is derived from the login request's.
CtxDone_FromLogin(p) ==
  IF p = "loop" THEN cancelled \/ reqDone["login"] ELSE reqDone["w"]

\* ctx.Done() of the context a refresher passes to refreshDB: the loop passes
\* refreshCtx (context.WithCancel(context.Background())), setWordStatusItems
\* its request's context.
CtxDone(p) == IF p = "loop" THEN cancelled ELSE reqDone["w"]

\* The ttl a caller passes to refreshDBIfStale: the loop its own ttl,
\* setWordStatusItems s.cache.ttl.
CallerTTL(p) == IF p = "loop" THEN refreshTTL ELSE CacheTTL

\* Where a refresher goes when refreshDBIfStale returns.
RestPc(p) == IF p = "loop" THEN "select" ELSE "idle"

\* Where a refresher goes when refreshDB returns an error: the loop logs it and
\* selects again, setWordStatusItems returns it.
FailPc_Exit(p) == IF p = "loop" THEN "exited" ELSE "idle"
FailPc(p) == RestPc(p)

\* A refresher is inside refreshDB.
InRefreshDB(p) == pc[p] \in {"download", "write", "writing", "open", "install"}

\* The error returns of refreshDB.
RefreshErrors == {"download", "cancelled", "write", "open", "rename"}

\* handles with handle h closed.
CloseHandle(hs, h) == IF h = 0 THEN hs ELSE [hs EXCEPT ![h].open = FALSE]

\* Mutant of SwapClose: the previous handle is not closed.
SwapClose_Leak(hs, cur) == hs

\* refreshDB after the rename: if c.db != nil { _ = c.db.Close() }.
SwapClose(hs, cur) == CloseHandle(hs, cur)

\* The handles that are open.
OpenHandles == {h \in 1..Len(handles) : handles[h].open}

\* refreshDB when os.Rename fails: _ = newDB.Close(); the current handle stays.
RenameFailClose_Old(hs, newH, curH) == CloseHandle(hs, curH)
RenameFailClose(hs, newH, curH) == CloseHandle(hs, newH)

\* The holder of the exclusive lock once refreshDB has started its download:
\* refreshDB takes no lock before ForceDownloadSRSDB.
DownloadLock_Held(p, w) == p
DownloadLock(p, w) == w

\* Mutant of StartsLoop: the refresh goroutine is never started.
StartsLoop_Never(ttl) == FALSE

\* NewMigakuClient: if ttl > 0 { ... c.refreshWg.Go(func() { ... }) }
StartsLoop(ttl) == ttl > 0

\* The refresh goroutines of the client that are running.
LoopGoroutines == IF pc["loop"] \in {"nostart", "exited"} THEN 0 ELSE 1

\* The state NewMigakuClient leaves: the first snapshot installed, the loop
\* started when ttl > 0.
ClientInit ==
  /\ cmuW = None /\ cmuR = {}
  /\ inodes = <<1>> /\ fDb = 1 /\ fTmp = 0
  /\ handles = <<[ino |-> 1, open |-> TRUE]>> /\ db = 1
  /\ lastRefresh = 0
  /\ cancelled = FALSE /\ closed = None
  /\ nextTick = refreshTTL
  /\ reqDone = [q \in Requests |-> FALSE]
  /\ pc = [p \in Procs |-> IF p # "loop" THEN "idle"
                           ELSE IF StartsLoop(refreshTTL) THEN "select" ELSE "nostart"]
  /\ rData = [p \in Refreshers |-> 0]
  /\ rIno = [p \in Refreshers |-> 0]
  /\ rH = [p \in Refreshers |-> 0]
  /\ rErr = [p \in Refreshers |-> None]
  /\ qH = 0 /\ qSnap = 0
  /\ dlCount = 1
  /\ dlLast = NoStart
  /\ afterClose = 0
  /\ rBase = [p \in Refreshers |-> NoBase]
  /\ dbEpoch = 0

\* The refresh loop receives a tick (case <-ticker.C).
LoopTick ==
  /\ pc["loop"] = "select"
  /\ now >= nextTick
  /\ nextTick' = nextTick + refreshTTL * (((now - nextTick) \div refreshTTL) + 1)
  /\ pc' = [pc EXCEPT !["loop"] = "stale"]
  /\ UNCHANGED <<cmuW, cmuR, db, handles, inodes, fDb, fTmp, lastRefresh, cancelled,
                 closed, rData, rIno, rH, rErr, qH, qSnap, dlCount, dlLast, afterClose>>
  /\ UNCHANGED <<rBase, dbEpoch>>
  /\ OnlyClient

\* The refresh loop sees refreshCtx.Done() and returns.
LoopStop ==
  /\ pc["loop"] = "select"
  /\ cancelled
  /\ pc' = [pc EXCEPT !["loop"] = "exited"]
  /\ UNCHANGED <<cmuW, cmuR, db, handles, inodes, fDb, fTmp, lastRefresh, cancelled,
                 closed, nextTick, rData, rIno, rH, rErr, qH, qSnap, dlCount, dlLast,
                 afterClose>>
  /\ UNCHANGED <<rBase, dbEpoch>>
  /\ OnlyClient

\* A request goroutine in setWordStatusItems reaches client.refreshDBIfStale.
WriteRequest ==
  /\ pc["w"] = "idle"
  /\ dlCount < MaxDownloads
  /\ pc' = [pc EXCEPT !["w"] = "stale"]
  /\ UNCHANGED <<cmuW, cmuR, db, handles, inodes, fDb, fTmp, lastRefresh, cancelled,
                 closed, nextTick, rData, rIno, rH, rErr, qH, qSnap, dlCount, dlLast,
                 afterClose>>
  /\ UNCHANGED <<rBase, dbEpoch>>
  /\ OnlyClient

\* refreshDBIfStale: the staleness test (isRefreshStale reads lastRefresh under RLock).
RefreshCheckStale(p) ==
  /\ pc[p] = "stale"
  /\ CanRLock
  /\ IF RefreshNeeded(lastRefresh, now, CallerTTL(p)) /\ dlCount < MaxDownloads
     THEN pc' = [pc EXCEPT ![p] = "session"] /\ UNCHANGED rErr
     ELSE pc' = [pc EXCEPT ![p] = RestPc(p)] /\ rErr' = [rErr EXCEPT ![p] = "nil"]
  /\ UNCHANGED <<cmuW, cmuR, db, handles, inodes, fDb, fTmp, lastRefresh, cancelled,
                 closed, nextTick, rData, rIno, rH, qH, qSnap, dlCount, dlLast,
                 afterClose>>
  /\ UNCHANGED <<rBase, dbEpoch>>
  /\ OnlyClient

\* refreshDB: session is read under RLock and ForceDownloadSRSDB is called.
RefreshStart(p) ==
  /\ pc[p] = "session"
  /\ CanRLock
  /\ pc' = [pc EXCEPT ![p] = "download"]
  /\ dlCount' = dlCount + 1
  /\ dlLast' = [dbOpen |-> db # 0, age |-> now - lastRefresh]
  /\ afterClose' = IF closed # None THEN afterClose + 1 ELSE afterClose
  /\ cmuW' = DownloadLock(p, cmuW)
  /\ UNCHANGED <<cmuR, db, handles, inodes, fDb, fTmp, lastRefresh, cancelled,
                 closed, nextTick, rData, rIno, rH, rErr, qH, qSnap>>
  /\ rBase' = [rBase EXCEPT ![p] = [db |-> db, last |-> lastRefresh, epoch |-> dbEpoch]]
  /\ UNCHANGED dbEpoch
  /\ OnlyClient

\* ForceDownloadSRSDB returns the decompressed snapshot.
DownloadOk(p) ==
  /\ pc[p] = "download"
  /\ rData' = [rData EXCEPT ![p] = dlCount]
  /\ pc' = [pc EXCEPT ![p] = "write"]
  /\ UNCHANGED <<cmuW, cmuR, db, handles, inodes, fDb, fTmp, lastRefresh, cancelled,
                 closed, nextTick, rIno, rH, rErr, qH, qSnap, dlCount, dlLast, afterClose>>
  /\ UNCHANGED <<rBase, dbEpoch>>
  /\ OnlyClient

\* The context of an HTTP request is cancelled: the client went away, or the
\* handler returned.
RequestCancel(q) ==
  /\ ~reqDone[q]
  /\ reqDone' = [reqDone EXCEPT ![q] = TRUE]
  /\ UNCHANGED <<now, refreshTTL, cacheVars, tokenVars, clientVars, svcVars, appVars,
                 sessVars, keyVars, rowVars, statVars, lockVars>>

\* ForceDownloadSRSDB returns the error of its context: it was cancelled.
DownloadCancelled(p) ==
  /\ pc[p] = "download"
  /\ CtxDone(p)
  /\ rErr' = [rErr EXCEPT ![p] = "cancelled"]
  /\ pc' = [pc EXCEPT ![p] = FailPc(p)]
  /\ UNCHANGED <<cmuW, cmuR, db, handles, inodes, fDb, fTmp, lastRefresh, cancelled,
                 closed, nextTick, rData, rIno, rH, qH, qSnap, dlCount, dlLast, afterClose>>
  /\ UNCHANGED <<rBase, dbEpoch>>
  /\ OnlyClient

\* Mutant of AfterFailedRefresh: a failed attempt is stamped too.
AfterFailedRefresh_Stamp(last, t) == t

\* c.lastRefresh after a refreshDB that returned an error: no error return
\* assigns it.
AfterFailedRefresh(last, t) == last

\* ForceDownloadSRSDB fails (token, transport, status, gzip).
DownloadFail(p) ==
  /\ pc[p] = "download"
  /\ rErr' = [rErr EXCEPT ![p] = "download"]
  /\ pc' = [pc EXCEPT ![p] = FailPc(p)]
  /\ lastRefresh' = AfterFailedRefresh(lastRefresh, now)
  /\ UNCHANGED <<cmuW, cmuR, db, handles, inodes, fDb, fTmp, cancelled,
                 closed, nextTick, rData, rIno, rH, qH, qSnap, dlCount, dlLast, afterClose>>
  /\ UNCHANGED <<rBase, dbEpoch>>
  /\ OnlyClient

\* os.WriteFile(tmpPath, ...) opens the file with O_CREATE|O_TRUNC: a new empty
\* file, or the existing one cut to length 0.
WriteTmpBegin(p) ==
  /\ pc[p] = "write"
  /\ IF fTmp = 0
     THEN /\ inodes' = Append(inodes, 0)
          /\ fTmp' = Len(inodes) + 1
          /\ rIno' = [rIno EXCEPT ![p] = Len(inodes) + 1]
     ELSE /\ inodes' = [inodes EXCEPT ![fTmp] = 0]
          /\ rIno' = [rIno EXCEPT ![p] = fTmp]
          /\ UNCHANGED fTmp
  /\ pc' = [pc EXCEPT ![p] = "writing"]
  /\ UNCHANGED <<cmuW, cmuR, db, handles, fDb, lastRefresh, cancelled, closed,
                 nextTick, rData, rH, rErr, qH, qSnap, dlCount, dlLast, afterClose>>
  /\ UNCHANGED <<rBase, dbEpoch>>
  /\ OnlyClient

\* os.WriteFile cannot create or write the file.
WriteTmpFail(p) ==
  /\ pc[p] = "write"
  /\ rErr' = [rErr EXCEPT ![p] = "write"]
  /\ pc' = [pc EXCEPT ![p] = FailPc(p)]
  /\ UNCHANGED <<cmuW, cmuR, db, handles, inodes, fDb, fTmp, lastRefresh, cancelled,
                 closed, nextTick, rData, rIno, rH, qH, qSnap, dlCount, dlLast, afterClose>>
  /\ UNCHANGED <<rBase, dbEpoch>>
  /\ OnlyClient

\* os.WriteFile fails after it has opened the file: what it wrote so far stays
\* at tmpPath.
WriteTmpAbort(p) ==
  /\ pc[p] = "writing"
  /\ rErr' = [rErr EXCEPT ![p] = "write"]
  /\ pc' = [pc EXCEPT ![p] = FailPc(p)]
  /\ UNCHANGED <<cmuW, cmuR, db, handles, inodes, fDb, fTmp, lastRefresh, cancelled,
                 closed, nextTick, rData, rIno, rH, qH, qSnap, dlCount, dlLast, afterClose>>
  /\ UNCHANGED <<rBase, dbEpoch>>
  /\ OnlyClient

\* os.WriteFile has written all the bytes to the file it opened.
WriteTmpEnd(p) ==
  /\ pc[p] = "writing"
  /\ inodes' = [inodes EXCEPT ![rIno[p]] = rData[p]]
  /\ pc' = [pc EXCEPT ![p] = "open"]
  /\ UNCHANGED <<cmuW, cmuR, db, handles, fDb, fTmp, lastRefresh, cancelled, closed,
                 nextTick, rData, rIno, rH, rErr, qH, qSnap, dlCount, dlLast, afterClose>>
  /\ UNCHANGED <<rBase, dbEpoch>>
  /\ OnlyClient

\* sqlx.Open("sqlite", tmpPath): the handle reads the file now at tmpPath; when
\* none is there sqlite creates an empty database file.
OpenTmp(p) ==
  /\ pc[p] = "open"
  /\ IF fTmp = 0
     THEN /\ inodes' = Append(inodes, 0)
          /\ fTmp' = Len(inodes) + 1
          /\ handles' = Append(handles, [ino |-> Len(inodes) + 1, open |-> TRUE])
     ELSE /\ handles' = Append(handles, [ino |-> fTmp, open |-> TRUE])
          /\ UNCHANGED <<inodes, fTmp>>
  /\ rH' = [rH EXCEPT ![p] = Len(handles) + 1]
  /\ pc' = [pc EXCEPT ![p] = "install"]
  /\ UNCHANGED <<cmuW, cmuR, db, fDb, lastRefresh, cancelled, closed, nextTick,
                 rData, rIno, rErr, qH, qSnap, dlCount, dlLast, afterClose>>
  /\ UNCHANGED <<rBase, dbEpoch>>
  /\ OnlyClient

\* sqlx.Open fails: os.Remove(tmpPath), and the error is returned.
OpenTmpFail(p) ==
  /\ pc[p] = "open"
  /\ fTmp' = 0
  /\ rErr' = [rErr EXCEPT ![p] = "open"]
  /\ pc' = [pc EXCEPT ![p] = FailPc(p)]
  /\ UNCHANGED <<cmuW, cmuR, db, handles, inodes, fDb, lastRefresh, cancelled,
                 closed, nextTick, rData, rIno, rH, qH, qSnap, dlCount, dlLast, afterClose>>
  /\ UNCHANGED <<rBase, dbEpoch>>
  /\ OnlyClient

\* c.lastRefresh = time.Now(), in the critical section that sets c.db.
RefreshedAt(t) == t

\* refreshDB's critical section: c.mu.Lock(); os.Rename(tmpPath, c.dbPath); the old
\* handle is closed, c.db = newDB, c.lastRefresh = time.Now(); Unlock.
InstallSwap(p) ==
  /\ pc[p] = "install"
  /\ CanLock
  /\ fTmp # 0
  /\ fDb' = fTmp
  /\ fTmp' = 0
  /\ handles' = SwapClose(handles, db)
  /\ db' = rH[p]
  /\ lastRefresh' = RefreshedAt(now)
  /\ rErr' = [rErr EXCEPT ![p] = "nil"]
  /\ afterClose' = IF closed # None THEN afterClose + 1 ELSE afterClose
  /\ pc' = [pc EXCEPT ![p] = RestPc(p)]
  /\ UNCHANGED <<cmuW, cmuR, inodes, cancelled, closed, nextTick, rData, rIno, rH,
                 qH, qSnap, dlCount, dlLast>>
  /\ dbEpoch' = dbEpoch + 1
  /\ UNCHANGED rBase
  /\ OnlyClient

\* refreshDB's critical section when os.Rename fails (no file at tmpPath, or the
\* file system refuses): newDB is closed and the error returned.
InstallRenameFail(p) ==
  /\ pc[p] = "install"
  /\ CanLock
  /\ handles' = RenameFailClose(handles, rH[p], db)
  /\ rErr' = [rErr EXCEPT ![p] = "rename"]
  /\ pc' = [pc EXCEPT ![p] = FailPc(p)]
  /\ UNCHANGED <<cmuW, cmuR, db, inodes, fDb, fTmp, lastRefresh, cancelled, closed,
                 nextTick, rData, rIno, rH, qH, qSnap, dlCount, dlLast, afterClose>>
  /\ UNCHANGED <<rBase, dbEpoch>>
  /\ OnlyClient

\* runReadQuery / runReadRow: client.mu.RLock(); with client.db non-nil the query
\* runs on it under the read lock, otherwise the read lock is dropped.
ReadBegin ==
  /\ pc["r"] = "idle"
  /\ CanRLock
  /\ IF db # 0
     THEN /\ qH' = db
          /\ qSnap' = inodes[handles[db].ino]
          /\ cmuR' = cmuR \cup {"r"}
          /\ pc' = [pc EXCEPT !["r"] = "query"]
     ELSE /\ pc' = [pc EXCEPT !["r"] = "needlock"]
          /\ UNCHANGED <<qH, qSnap, cmuR>>
  /\ UNCHANGED <<cmuW, db, handles, inodes, fDb, fTmp, lastRefresh, cancelled, closed,
                 nextTick, rData, rIno, rH, rErr, dlCount, dlLast, afterClose>>
  /\ UNCHANGED <<rBase, dbEpoch>>
  /\ OnlyClient

\* The query on the read-locked path returns; deferred RUnlock.
ReadEnd ==
  /\ pc["r"] = "query"
  /\ cmuR' = cmuR \ {"r"}
  /\ qH' = 0 /\ qSnap' = 0
  /\ pc' = [pc EXCEPT !["r"] = "idle"]
  /\ UNCHANGED <<cmuW, db, handles, inodes, fDb, fTmp, lastRefresh, cancelled, closed,
                 nextTick, rData, rIno, rH, rErr, dlCount, dlLast, afterClose>>
  /\ UNCHANGED <<rBase, dbEpoch>>
  /\ OnlyClient

\* runReadQuery with client.db nil: client.mu.Lock(); ensureDBLocked returns c.db
\* or opens the file at dbPath when os.Stat finds it.
ReadLockedBegin ==
  /\ pc["r"] = "needlock"
  /\ CanLock
  /\ db # 0 \/ fDb # 0
  /\ cmuW' = "r"
  /\ IF db # 0
     THEN /\ qH' = db
          /\ qSnap' = inodes[handles[db].ino]
          /\ UNCHANGED <<db, handles>>
     ELSE /\ handles' = Append(handles, [ino |-> fDb, open |-> TRUE])
          /\ db' = Len(handles) + 1
          /\ qH' = Len(handles) + 1
          /\ qSnap' = inodes[fDb]
  /\ pc' = [pc EXCEPT !["r"] = "lquery"]
  /\ UNCHANGED <<cmuR, inodes, fDb, fTmp, lastRefresh, cancelled, closed, nextTick,
                 rData, rIno, rH, rErr, dlCount, dlLast, afterClose>>
  /\ dbEpoch' = IF db # 0 THEN dbEpoch ELSE dbEpoch + 1
  /\ UNCHANGED rBase
  /\ OnlyClient

\* The file at dbPath is removed from outside the program (the operating system
\* cleans its temp directory); followed for a session whose handle was closed.
FileCleaned ==
  /\ closed # None
  /\ fDb # 0
  /\ fDb' = 0
  /\ UNCHANGED <<cmuW, cmuR, db, handles, inodes, fTmp, lastRefresh, cancelled, closed,
                 nextTick, pc, rData, rIno, rH, rErr, qH, qSnap, dlCount, dlLast,
                 afterClose>>
  /\ UNCHANGED <<rBase, dbEpoch>>
  /\ OnlyClient

\* runReadQuery with client.db nil and no file at dbPath: client.mu.Lock();
\* ensureDBLocked calls refreshDBLocked, which calls ForceDownloadSRSDB with the
\* lock held.
ReadLockedRefresh ==
  /\ pc["r"] = "needlock"
  /\ CanLock
  /\ db = 0 /\ fDb = 0
  /\ dlCount < MaxDownloads
  /\ cmuW' = "r"
  /\ dlCount' = dlCount + 1
  /\ dlLast' = [dbOpen |-> FALSE, age |-> now - lastRefresh]
  /\ afterClose' = IF closed # None THEN afterClose + 1 ELSE afterClose
  /\ pc' = [pc EXCEPT !["r"] = "ldownload"]
  /\ UNCHANGED <<cmuR, db, handles, inodes, fDb, fTmp, lastRefresh, cancelled, closed,
                 nextTick, rData, rIno, rH, rErr, qH, qSnap>>
  /\ UNCHANGED <<rBase, dbEpoch>>
  /\ OnlyClient

\* refreshDBLocked: the download returned; os.WriteFile(tmpPath), os.Rename to
\* dbPath, sqlx.Open(dbPath), c.db and c.lastRefresh set; the query then runs.
LockedDownloadOk ==
  /\ pc["r"] = "ldownload"
  /\ IF fTmp = 0
     THEN /\ inodes' = Append(inodes, dlCount)
          /\ fDb' = Len(inodes) + 1
          /\ handles' = Append(handles, [ino |-> Len(inodes) + 1, open |-> TRUE])
     ELSE /\ inodes' = [inodes EXCEPT ![fTmp] = dlCount]
          /\ fDb' = fTmp
          /\ handles' = Append(handles, [ino |-> fTmp, open |-> TRUE])
  /\ fTmp' = 0
  /\ db' = Len(handles) + 1
  /\ lastRefresh' = RefreshedAt(now)
  /\ dbEpoch' = dbEpoch + 1
  /\ qH' = Len(handles) + 1
  /\ qSnap' = dlCount
  /\ afterClose' = IF closed # None THEN afterClose + 1 ELSE afterClose
  /\ pc' = [pc EXCEPT !["r"] = "lquery"]
  /\ UNCHANGED <<cmuW, cmuR, cancelled, closed, nextTick, rData, rIno, rH, rErr,
                 dlCount, dlLast, rBase>>
  /\ OnlyClient

\* refreshDBLocked: ForceDownloadSRSDB fails; the error is returned, deferred Unlock.
LockedDownloadFail ==
  /\ pc["r"] = "ldownload"
  /\ cmuW' = None
  /\ pc' = [pc EXCEPT !["r"] = "idle"]
  /\ UNCHANGED <<cmuR, db, handles, inodes, fDb, fTmp, lastRefresh, cancelled, closed,
                 nextTick, rData, rIno, rH, rErr, qH, qSnap, dlCount, dlLast,
                 afterClose>>
  /\ UNCHANGED <<rBase, dbEpoch>>
  /\ OnlyClient

\* The query on the exclusive path returns; deferred Unlock.
ReadLockedEnd ==
  /\ pc["r"] = "lquery"
  /\ cmuW' = None
  /\ qH' = 0 /\ qSnap' = 0
  /\ pc' = [pc EXCEPT !["r"] = "idle"]
  /\ UNCHANGED <<cmuR, db, handles, inodes, fDb, fTmp, lastRefresh, cancelled, closed,
                 nextTick, rData, rIno, rH, rErr, dlCount, dlLast, afterClose>>
  /\ UNCHANGED <<rBase, dbEpoch>>
  /\ OnlyClient

\* Close: if c.refreshStop != nil, refreshStop() cancels the loop's context.
CloseStop ==
  /\ pc["x"] = "idle"
  /\ closed = None
  /\ cancelled' = StartsLoop(refreshTTL)
  /\ pc' = [pc EXCEPT !["x"] = "wgwait"]
  /\ UNCHANGED <<cmuW, cmuR, db, handles, inodes, fDb, fTmp, lastRefresh, closed,
                 nextTick, rData, rIno, rH, rErr, qH, qSnap, dlCount, dlLast, afterClose>>
  /\ UNCHANGED <<rBase, dbEpoch>>
  /\ OnlyClient

\* Close: refreshWg.Wait() returns once the loop goroutine has returned; then
\* cleanUp() -> closeDB takes the lock, closes db and sets it to nil.
CloseWaitAndCleanUp ==
  /\ pc["x"] = "wgwait"
  /\ pc["loop"] \in {"exited", "nostart"}
  /\ CanLock
  /\ handles' = CloseHandle(handles, db)
  /\ db' = 0
  /\ closed' = "close"
  /\ pc' = [pc EXCEPT !["x"] = "done"]
  /\ UNCHANGED <<cmuW, cmuR, inodes, fDb, fTmp, lastRefresh, cancelled, nextTick,
                 rData, rIno, rH, rErr, qH, qSnap, dlCount, dlLast, afterClose>>
  /\ dbEpoch' = dbEpoch + 1
  /\ UNCHANGED rBase
  /\ OnlyClient

\* handleLogout: db.cleanUp() -> closeDB, then the account is deleted.
Logout ==
  /\ pc["x"] = "idle"
  /\ closed = None
  /\ CanLock
  /\ handles' = CloseHandle(handles, db)
  /\ db' = 0
  /\ closed' = "logout"
  /\ pc' = [pc EXCEPT !["x"] = "done"]
  /\ UNCHANGED <<cmuW, cmuR, inodes, fDb, fTmp, lastRefresh, cancelled, nextTick,
                 rData, rIno, rH, rErr, qH, qSnap, dlCount, dlLast, afterClose>>
  /\ dbEpoch' = dbEpoch + 1
  /\ UNCHANGED rBase
  /\ OnlyClient

\* =========================================================== MigakuService
Words == {"a", "b"}
\* How a WordList row stands in the mirror: with secondary '' ("plain"), with
\* secondary NULL, with partOfSpeech NULL, with del = 1, or not there at all.
RowKinds == {"plain", "secnull", "posnull", "deleted", "absent"}
\* The request's status strings that statusToUpdate accepts here.
Statuses == {"known", "tracked"}
\* The item lists of a call.
Batches == {<<"a">>, <<"a", "b">>}

\* Strings are sequences of characters.
Known == <<"k", "n", "o", "w", "n">>
Learning == <<"l", "e", "a", "r", "n", "i", "n", "g">>
Ignored == <<"i", "g", "n", "o", "r", "e", "d">>
Tracked == <<"t", "r", "a", "c", "k", "e", "d">>

\* The status arguments of a call: " Known ", "tracked", "new", " ".
RawStatuses ==
  {<<" ", "K", "n", "o", "w", "n", " ">>, Tracked, <<"n", "e", "w">>, <<" ">>}
\* The item lists of a call, by their wordText: none, [" "], [" a"],
\* ["a", "b "], ["a", ""].
RawBatches ==
  {<<>>, << <<" ">> >>, << <<" ", "a">> >>, << <<"a">>, <<"b", " ">> >>,
   << <<"a">>, <<>> >>}
\* The client argument: nil, or the client of the request's API key.
ClientArgs == {"nil", "client"}
NoArgs == [client |-> None, items |-> <<>>, status |-> <<>>]

IsSpace(c) == c \in {" ", "\t", "\n"}

\* strings.TrimSpace: the string without its leading and trailing white space.
RECURSIVE TrimLeft(_)
TrimLeft(s) == IF s # <<>> /\ IsSpace(Head(s)) THEN TrimLeft(Tail(s)) ELSE s
RECURSIVE TrimRight(_)
TrimRight(s) ==
  IF s # <<>> /\ IsSpace(s[Len(s)]) THEN TrimRight(SubSeq(s, 1, Len(s) - 1)) ELSE s
TrimSpace(s) == TrimRight(TrimLeft(s))

\* strings.ToLower, for the letters that occur here.
LowerOf(c) == CASE c = "K" -> "k" [] c = "T" -> "t" [] c = "A" -> "a" [] OTHER -> c
ToLower(s) == [i \in 1..Len(s) |-> LowerOf(s[i])]

\* statusToUpdate's switch on strings.ToLower(strings.TrimSpace(status)): the
\* status it recognises, or None for its default case.
StatusName(st) ==
  LET normalized == ToLower(TrimSpace(st)) IN
    CASE normalized = Known -> "known"
      [] normalized = Learning -> "learning"
      [] normalized = Ignored -> "ignored"
      [] normalized = Tracked -> "tracked"
      [] OTHER -> None

\* The normalizedItems of setWordStatusItems: each wordText trimmed (the
\* words here are one character long).
NormalizeItems(items) == [i \in 1..Len(items) |-> TrimSpace(items[i])[1]]

\* Mutant of ValidationError: the items are looked at before the status.
ValidationError_ItemsFirst(cl, items, st) ==
  IF cl = "nil" THEN "ErrClientNotAuth"
  ELSE IF items = <<>> \/ \E i \in 1..Len(items) : TrimSpace(items[i]) = <<>>
       THEN "ErrWordTextRequired"
  ELSE IF StatusName(st) = None THEN "ErrInvalidStatus"
  ELSE None

\* The checks setWordStatusItems makes before it touches anything, in its
\* order: the client, the status, the item list, each item's wordText.
ValidationError(cl, items, st) ==
  IF cl = "nil" THEN "ErrClientNotAuth"
  ELSE IF StatusName(st) = None THEN "ErrInvalidStatus"
  ELSE IF items = <<>> THEN "ErrWordTextRequired"
  ELSE IF \E i \in 1..Len(items) : TrimSpace(items[i]) = <<>>
       THEN "ErrWordTextRequired"
  ELSE None
SRefreshers == {"w", "bg"}
SProcs == SRefreshers \cup {"rd"}
NoObs == [tag |-> 0, partial |-> FALSE]
NoHit == [hit |-> FALSE, tag |-> 0, ok |-> 0]
NoCount == [push |-> 0, update |-> 0, clear |-> 0]

\* statusToUpdate: the knownStatus and tracked values of a status.
StatusToUpdate(st) ==
  IF st = "known" THEN [ks |-> "KNOWN", tr |-> FALSE]
  ELSE [ks |-> "UNKNOWN", tr |-> TRUE]

\* A row as the server hands it out before any write.
InitRow(kind) == [kind |-> kind, ks |-> "UNKNOWN", tr |-> FALSE]

\* lookupWordRecord's WHERE clause for an item without secondary:
\* del = 0 AND dictForm = ? AND (secondary = '' OR secondary IS NULL)
LookupFound_Any(m, w) == TRUE
LookupFound(m, w) == m[w].kind \notin {"absent", "deleted"}

\* requireRecordKeys: dictForm, partOfSpeech and language must be valid.
RequireRecordKeys(rec) == rec.kind # "posnull"

\* updateLocalWordStatus's UPDATE for one record: WHERE dictForm = ? AND
\* secondary = ? AND partOfSpeech = ? AND language = ?, with '' for a NULL secondary.
UpdateRow(m, rec, u) ==
  IF m[rec.word].kind = "plain" /\ rec.kind = "plain"
  THEN [m EXCEPT ![rec.word].ks = u.ks, ![rec.word].tr = u.tr]
  ELSE m

\* The server applies a pushed batch to the words it has.
PushApply(r, recs, u) ==
  [w \in Words |->
     IF r[w].kind # "absent" /\ \E i \in 1..Len(recs) : recs[i].word = w
     THEN [r[w] EXCEPT !.ks = u.ks, !.tr = u.tr]
     ELSE r[w]]

\* The row carries the status the call sets.
HasNew(row, u) == row.kind # "absent" /\ row.ks = u.ks /\ row.tr = u.tr

\* Only some rows of the call's batch carry the new status.
PartialBatch(m) ==
  /\ wErr = None \/ wErr = "nil" \/ wErr = "local"
  /\ wItems # <<>>
  /\ \E i \in 1..Len(wItems) : HasNew(m[wItems[i]], StatusToUpdate(wStatus))
  /\ \E i \in 1..Len(wItems) : ~HasNew(m[wItems[i]], StatusToUpdate(wStatus))

ServiceInit ==
  /\ \E k \in [Words -> RowKinds] : mirror = [w \in Words |-> InitRow(k[w])]
  /\ remote = mirror
  /\ spc = [p \in SProcs |-> "idle"]
  /\ wArgs = NoArgs
  /\ wItems = <<>> /\ wStatus = None /\ wIdx = 0 /\ wRecs = <<>>
  /\ wErr = None /\ wCount = NoCount /\ wMissing = FALSE
  /\ updEpoch = 0 /\ okEpoch = 0
  /\ sSnap = [p \in SRefreshers |-> mirror]
  /\ sDl = 0
  /\ rdObs = NoObs /\ rdRes = NoHit

\* setWordStatusItems is called: arguments that fail a check make it return
\* that check's error at once, the others are normalized and the call reaches
\* client.refreshDBIfStale.
SvcWriteCall(cl, items, st) ==
  /\ spc["w"] = "idle"
  /\ wErr = None /\ wItems = <<>> /\ wArgs = NoArgs
  /\ wArgs' = [client |-> cl, items |-> items, status |-> st]
  /\ IF ValidationError(cl, items, st) = None
     THEN /\ wItems' = NormalizeItems(items) /\ wStatus' = StatusName(st)
          /\ spc' = [spc EXCEPT !["w"] = "refresh"]
          /\ UNCHANGED wErr
     ELSE /\ wErr' = ValidationError(cl, items, st)
          /\ spc' = [spc EXCEPT !["w"] = "done"]
          /\ UNCHANGED <<wItems, wStatus>>
  /\ UNCHANGED <<mirror, remote, wIdx, wRecs, wCount, wMissing, updEpoch,
                 okEpoch, sSnap, sDl, rdObs, rdRes>>
  /\ UNCHANGED <<cache, lastRefresh, nextTick>>
  /\ OnlyService

\* refreshDBIfStale in setWordStatusItems (ttl = s.cache.ttl): the staleness test.
SvcWriteRefreshCheck ==
  /\ spc["w"] = "refresh"
  /\ IF RefreshNeeded(lastRefresh, now, CacheTTL) /\ sDl < MaxDownloads - 1
     THEN spc' = [spc EXCEPT !["w"] = "download"] /\ sDl' = sDl + 1 /\ UNCHANGED wIdx
     ELSE spc' = [spc EXCEPT !["w"] = "lookup"] /\ wIdx' = 1 /\ UNCHANGED sDl
  /\ UNCHANGED <<mirror, remote, wArgs, wItems, wStatus, wRecs, wErr, wCount, wMissing,
                 updEpoch, okEpoch, sSnap, rdObs, rdRes>>
  /\ UNCHANGED <<cache, lastRefresh, nextTick>>
  /\ OnlyService

\* The refresh loop's tick and its refreshDBIfStale staleness test.
SvcLoopTick ==
  /\ spc["bg"] = "idle"
  /\ now >= nextTick
  /\ sDl < MaxDownloads - 1
  /\ nextTick' = nextTick + CacheTTL * (((now - nextTick) \div CacheTTL) + 1)
  /\ IF RefreshNeeded(lastRefresh, now, CacheTTL)
     THEN spc' = [spc EXCEPT !["bg"] = "download"] /\ sDl' = sDl + 1
     ELSE UNCHANGED <<spc, sDl>>
  /\ UNCHANGED <<mirror, remote, wArgs, wItems, wStatus, wIdx, wRecs, wErr, wCount, wMissing,
                 updEpoch, okEpoch, sSnap, rdObs, rdRes>>
  /\ UNCHANGED <<cache, lastRefresh>>
  /\ OnlyService

\* refreshDB: ForceDownloadSRSDB returns the server's rows as they are now.
SvcDownloadOk(p) ==
  /\ spc[p] = "download"
  /\ sSnap' = [sSnap EXCEPT ![p] = remote]
  /\ spc' = [spc EXCEPT ![p] = "install"]
  /\ UNCHANGED <<mirror, remote, wArgs, wItems, wStatus, wIdx, wRecs, wErr, wCount, wMissing,
                 updEpoch, okEpoch, sDl, rdObs, rdRes>>
  /\ UNCHANGED <<cache, lastRefresh, nextTick>>
  /\ OnlyService

\* Mutant of AfterRefreshFail: setWordStatusItems goes on to its lookups.
AfterRefreshFail_Goon(p) == IF p = "w" THEN "lookup" ELSE "idle"

\* Where a failed refreshDBIfStale leaves its caller: setWordStatusItems
\* returns the error, the loop goes back to its select.
AfterRefreshFail(p) == IF p = "w" THEN "done" ELSE "idle"

\* refreshDB fails: the loop logs it, setWordStatusItems returns the error.
SvcDownloadFail(p) ==
  /\ spc[p] = "download"
  /\ spc' = [spc EXCEPT ![p] = AfterRefreshFail(p)]
  /\ IF p = "w" THEN wErr' = "refresh" ELSE UNCHANGED wErr
  /\ UNCHANGED <<mirror, remote, wArgs, wItems, wStatus, wIdx, wRecs, wCount, wMissing,
                 updEpoch, okEpoch, sSnap, sDl, rdObs, rdRes>>
  /\ UNCHANGED <<cache, lastRefresh, nextTick>>
  /\ OnlyService

\* refreshDB installs the snapshot under the lock; lastRefresh = time.Now().
SvcInstall(p) ==
  /\ spc[p] = "install"
  /\ mirror' = sSnap[p]
  /\ lastRefresh' = RefreshedAt(now)
  /\ IF p = "w"
     THEN spc' = [spc EXCEPT ![p] = "lookup"] /\ wIdx' = 1
     ELSE spc' = [spc EXCEPT ![p] = "idle"] /\ UNCHANGED wIdx
  /\ UNCHANGED <<remote, wArgs, wItems, wStatus, wRecs, wErr, wCount, wMissing, updEpoch,
                 okEpoch, sSnap, sDl, rdObs, rdRes>>
  /\ UNCHANGED <<cache, nextTick>>
  /\ OnlyService

\* setWordStatusItems: lookupWordRecord for the next item (runReadRow); a miss
\* returns ErrWordNotFound, the last hit leads on to PushSync.
SvcLookup ==
  /\ spc["w"] = "lookup"
  /\ LET w == wItems[wIdx] IN
       /\ wMissing' = (wMissing \/ mirror[w].kind \in {"absent", "deleted"})
       /\ IF LookupFound(mirror, w)
          THEN /\ wRecs' = Append(wRecs, [word |-> w, kind |-> mirror[w].kind])
               /\ wIdx' = wIdx + 1
               /\ spc' = [spc EXCEPT !["w"] =
                            IF wIdx = Len(wItems) THEN "push" ELSE "lookup"]
               /\ UNCHANGED wErr
          ELSE /\ wErr' = "ErrWordNotFound"
               /\ spc' = [spc EXCEPT !["w"] = "done"]
               /\ UNCHANGED <<wRecs, wIdx>>
  /\ UNCHANGED <<mirror, remote, wArgs, wItems, wStatus, wCount, updEpoch, okEpoch, sSnap,
                 sDl, rdObs, rdRes>>
  /\ UNCHANGED <<cache, lastRefresh, nextTick>>
  /\ OnlyService

\* Mutant of AfterPush: the error of PushSync is ignored.
AfterPush_Ignore(ok) == "update"

\* setWordStatusItems after PushSync: an error returns "failed to sync", success
\* goes on to updateLocalWordStatus.
AfterPush(ok) == IF ok THEN "update" ELSE "done"

\* client.session.PushSync succeeds: the server has applied the batch.
SvcPushOk ==
  /\ spc["w"] = "push"
  /\ remote' = PushApply(remote, wRecs, StatusToUpdate(wStatus))
  /\ wCount' = [wCount EXCEPT !.push = @ + 1]
  /\ wIdx' = 1
  /\ spc' = [spc EXCEPT !["w"] = AfterPush(TRUE)]
  /\ UNCHANGED <<mirror, wArgs, wItems, wStatus, wRecs, wErr, wMissing, updEpoch, okEpoch,
                 sSnap, sDl, rdObs, rdRes>>
  /\ UNCHANGED <<cache, lastRefresh, nextTick>>
  /\ OnlyService

\* client.session.PushSync fails (transport error or non-200): "failed to sync".
SvcPushFail ==
  /\ spc["w"] = "push"
  /\ wCount' = [wCount EXCEPT !.push = @ + 1]
  /\ wErr' = "sync"
  /\ spc' = [spc EXCEPT !["w"] = AfterPush(FALSE)]
  /\ UNCHANGED <<mirror, remote, wArgs, wItems, wStatus, wIdx, wRecs, wMissing, updEpoch,
                 okEpoch, sSnap, sDl, rdObs, rdRes>>
  /\ UNCHANGED <<cache, lastRefresh, nextTick>>
  /\ OnlyService

\* updateLocalWordStatus: the next record; requireRecordKeys, then one
\* runWriteQuery (its own Lock / Unlock) executing the UPDATE.
SvcUpdate ==
  /\ spc["w"] = "update"
  /\ LET rec == wRecs[wIdx] IN
       IF RequireRecordKeys(rec)
       THEN /\ mirror' = UpdateRow(mirror, rec, StatusToUpdate(wStatus))
            /\ wCount' = [wCount EXCEPT !.update = @ + 1]
            /\ updEpoch' = updEpoch + 1
            /\ wIdx' = wIdx + 1
            /\ spc' = [spc EXCEPT !["w"] =
                         IF wIdx = Len(wRecs) THEN "clear" ELSE "update"]
            /\ UNCHANGED wErr
       ELSE /\ wErr' = "local"
            /\ spc' = [spc EXCEPT !["w"] = "done"]
            /\ UNCHANGED <<mirror, wCount, updEpoch, wIdx>>
  /\ UNCHANGED <<remote, wArgs, wItems, wStatus, wRecs, wMissing, okEpoch, sSnap, sDl,
                 rdObs, rdRes>>
  /\ UNCHANGED <<cache, lastRefresh, nextTick>>
  /\ OnlyService

\* setWordStatusItems: s.cache.Clear(); return nil.
SvcClear ==
  /\ spc["w"] = "clear"
  /\ cache' = CacheAfterClear(cache)
  /\ wCount' = [wCount EXCEPT !.clear = @ + 1]
  /\ okEpoch' = updEpoch
  /\ wErr' = "nil"
  /\ spc' = [spc EXCEPT !["w"] = "done"]
  /\ UNCHANGED <<mirror, remote, wArgs, wItems, wStatus, wIdx, wRecs, wMissing, updEpoch,
                 sSnap, sDl, rdObs, rdRes>>
  /\ UNCHANGED <<lastRefresh, nextTick>>
  /\ OnlyService

\* Mutant of GetterHit: the cached value is never used.
GetterHit_Never(r) == FALSE

\* if cached, ok := s.cache.Get(cacheKey); ok { if v, ok := cached.(T); ok { return v, nil } }
GetterHit(r) == r.ok

\* A cached getter (GetDecks, GetStatusCounts, ...): s.cache.Get(cacheKey); a hit of the
\* expected type is returned, a miss goes on to the repository query.
SvcReadGet ==
  /\ spc["rd"] = "idle"
  /\ LET r == CacheLookup(cache, "decks", now) IN
       /\ cache' = CacheAfterGet(cache, "decks", now)
       /\ IF GetterHit(r)
          THEN /\ rdRes' = [hit |-> TRUE, tag |-> r.data, ok |-> okEpoch]
               /\ UNCHANGED spc
          ELSE /\ spc' = [spc EXCEPT !["rd"] = "query"]
               /\ rdRes' = NoHit
  /\ UNCHANGED <<mirror, remote, wArgs, wItems, wStatus, wIdx, wRecs, wErr, wCount, wMissing,
                 updEpoch, okEpoch, sSnap, sDl, rdObs>>
  /\ UNCHANGED <<lastRefresh, nextTick>>
  /\ OnlyService

\* The getter's repository query (runQuery -> runReadQuery) reads the mirror.
SvcReadQuery ==
  /\ spc["rd"] = "query"
  /\ rdObs' = [tag |-> updEpoch, partial |-> PartialBatch(mirror)]
  /\ spc' = [spc EXCEPT !["rd"] = "set"]
  /\ UNCHANGED <<mirror, remote, wArgs, wItems, wStatus, wIdx, wRecs, wErr, wCount, wMissing,
                 updEpoch, okEpoch, sSnap, sDl, rdRes>>
  /\ UNCHANGED <<cache, lastRefresh, nextTick>>
  /\ OnlyService

\* The getter stores what it computed: s.cache.Set(cacheKey, value).
SvcReadSet ==
  /\ spc["rd"] = "set"
  /\ cache' = CacheAfterSet(cache, "decks", rdObs.tag, now, CacheTTL)
  /\ spc' = [spc EXCEPT !["rd"] = "idle"]
  /\ UNCHANGED <<mirror, remote, wArgs, wItems, wStatus, wIdx, wRecs, wErr, wCount, wMissing,
                 updEpoch, okEpoch, sSnap, sDl, rdObs, rdRes>>
  /\ UNCHANGED <<lastRefresh, nextTick>>
  /\ OnlyService

\* ============================================================= Application
\* The login requests in flight, all for the same email.
Handlers == {"h1", "h2"}
\* The password of a request: the account's, or a wrong one.
Passwords == {"good", "bad"}
NoClient == 0

\* deriveAPIKey: an HMAC of email and password; one key per password here.
DeriveAPIKey(pw) == pw

\* The sign-in exchange of TryFromEmailPassword: the identity service answers
\* 200 to the right password and rejects a wrong one; the request may also fail
\* in transport.
SignInOutcomes(pw) == IF pw = "good" THEN {"ok", "neterr"} ELSE {"rejected", "neterr"}

\* NewMigakuClient goes on after TryFromEmailPassword only with a token.
SignInAccepted_Any(o) == TRUE
SignInAccepted(o) == o = "ok"

\* The steps of NewMigakuClient after the sign-in that can fail: MkdirAll, and
\* within the first refreshDB the download, the write of the temp file, the
\* sqlx.Open of it and the rename onto dbPath.
ConstructErrors == {"mkdir", "download", "write", "open", "rename"}

\* What a NewMigakuClient call has done: whether it started the refresh
\* goroutine, whether a db handle it opened is still open, and the step it
\* failed at.
NotConstructed == [loop |-> FALSE, dbOpen |-> FALSE, err |-> None]

\* refreshDB holds an open handle on the temp file once sqlx.Open succeeded,
\* which is the case when the rename is what fails.
OpenedBefore(e) == e = "rename"

\* Mutant of ClosedOnFail: the failed rename returns without newDB.Close().
ClosedOnFail_Never(e) == FALSE

\* refreshDB's error return after the rename failed closes newDB.
ClosedOnFail(e) == e = "rename"

\* The download is attempted unless MkdirAll failed before it.
DownloadAttempted(e) == e # "mkdir"

\* The paths a failed NewMigakuClient can leave: os.WriteFile may fail before
\* or after creating the temp file, a failed open removes it, a failed rename
\* leaves it.
FilesAfterFail(e) ==
  CASE e = "write" -> {{}, {"tmp"}}
    [] e = "rename" -> {{"tmp"}}
    [] OTHER -> {{}}

\* The requests that use app.accounts: the logins, a logout and a request
\* through authMiddleware.
AppProcs == Handlers \cup {"lo", "q"}

\* The process is still there: no fatal error has ended it.
Running(p) == accBusy[p] # "dead"

\* A client is alive while its refresh goroutine runs and its db handle is open.
ClientAlive(c) == c.loop /\ c.dbOpen

AliveClients(k) ==
  {i \in 1..Len(clients) : clients[i].key = k /\ ClientAlive(clients[i])}

AppInit ==
  /\ accounts = [k \in Passwords |-> NoClient]
  /\ clients = <<>>
  /\ appFiles = {}
  /\ hpc = [h \in Handlers |-> "idle"]
  /\ hCred = [h \in Handlers |-> None]
  /\ hSign = [h \in Handlers |-> None]
  /\ hNew = [h \in Handlers |-> NoClient]
  /\ hDl = [h \in Handlers |-> 0]
  /\ hFiles = [h \in Handlers |-> {}]
  /\ hRes = [h \in Handlers |-> None]
  /\ hCons = [h \in Handlers |-> NotConstructed]
  /\ accBusy = [p \in AppProcs |-> "none"]
  /\ lpc = "idle" /\ lKey = None /\ lDb = NoClient /\ lRes = None
  /\ qKey = None /\ qRes = None
  /\ loggedOut = {}

\* handleLogin up to the registry lookup: decode, deriveAPIKey, and
\* `_, exists := app.accounts[apiKey]`; an existing entry answers
\* "Already, logged in".
LoginCheck(h, pw) ==
  /\ hpc[h] \in {"idle", "done"}
  /\ Len(clients) < MaxClients
  /\ accBusy[h] = "read"
  /\ accBusy' = [accBusy EXCEPT ![h] = "none"]
  /\ hCred' = [hCred EXCEPT ![h] = pw]
  /\ hSign' = [hSign EXCEPT ![h] = None]
  /\ hNew' = [hNew EXCEPT ![h] = NoClient]
  /\ hDl' = [hDl EXCEPT ![h] = 0]
  /\ hFiles' = [hFiles EXCEPT ![h] = {}]
  /\ hCons' = [hCons EXCEPT ![h] = NotConstructed]
  /\ IF accounts[DeriveAPIKey(pw)] # NoClient
     THEN /\ hpc' = [hpc EXCEPT ![h] = "done"]
          /\ hRes' = [hRes EXCEPT ![h] = "already"]
     ELSE /\ hpc' = [hpc EXCEPT ![h] = "signin"]
          /\ hRes' = [hRes EXCEPT ![h] = None]
  /\ UNCHANGED <<accounts, clients, appFiles, regVars, loggedOut>>
  /\ OnlyApp

\* NewMigakuClient: TryFromEmailPassword; without a token it returns nil and the
\* error, and handleLogin answers 500.
LoginSignIn(h, o) ==
  /\ hpc[h] = "signin" /\ Running(h)
  /\ o \in SignInOutcomes(hCred[h])
  /\ hSign' = [hSign EXCEPT ![h] = o]
  /\ IF SignInAccepted(o)
     THEN hpc' = [hpc EXCEPT ![h] = "refresh"] /\ UNCHANGED <<hRes, hCons>>
     ELSE /\ hpc' = [hpc EXCEPT ![h] = "done"]
          /\ hRes' = [hRes EXCEPT ![h] = "error"]
          /\ hCons' = [hCons EXCEPT ![h].err = "signin"]
  /\ UNCHANGED <<accounts, clients, appFiles, hCred, hNew, hDl, hFiles>>
  /\ UNCHANGED <<accBusy, regVars, loggedOut>>
  /\ OnlyApp

\* NewMigakuClient: MkdirAll and the first refreshDB succeed (download, write of
\* dbPath+".tmp", rename to dbPath), the refresh goroutine is started and the
\* client returned.
LoginRefreshOk(h) ==
  /\ hpc[h] = "refresh" /\ Running(h)
  /\ hDl' = [hDl EXCEPT ![h] = @ + 1]
  /\ hFiles' = [hFiles EXCEPT ![h] = {"tmp", "db"}]
  /\ appFiles' = appFiles \cup {"db"}
  /\ clients' = Append(clients, [key |-> DeriveAPIKey(hCred[h]), loop |-> TRUE,
                                 dbOpen |-> TRUE])
  /\ hNew' = [hNew EXCEPT ![h] = Len(clients) + 1]
  /\ hCons' = [hCons EXCEPT ![h] = [loop |-> TRUE, dbOpen |-> TRUE, err |-> None]]
  /\ hpc' = [hpc EXCEPT ![h] = "register"]
  /\ UNCHANGED <<accounts, hCred, hSign, hRes, accBusy, regVars, loggedOut>>
  /\ OnlyApp

\* NewMigakuClient: MkdirAll or a step of the first refreshDB fails, and
\* `return nil, err` follows: no goroutine has been started and c.db was never
\* assigned. The deferred function sees c = nil and does not call Close;
\* handleLogin answers 500.
LoginRefreshFail(h, e) ==
  /\ hpc[h] = "refresh" /\ Running(h)
  /\ hDl' = [hDl EXCEPT ![h] = IF DownloadAttempted(e) THEN @ + 1 ELSE @]
  /\ \E fs \in FilesAfterFail(e) :
       /\ hFiles' = [hFiles EXCEPT ![h] = fs]
       /\ appFiles' = appFiles \cup fs
  /\ hCons' = [hCons EXCEPT ![h] = [loop |-> FALSE,
                                    dbOpen |-> OpenedBefore(e) /\ ~ClosedOnFail(e),
                                    err |-> e]]
  /\ hpc' = [hpc EXCEPT ![h] = "done"]
  /\ hRes' = [hRes EXCEPT ![h] = "error"]
  /\ UNCHANGED <<accounts, clients, hCred, hSign, hNew, accBusy, regVars, loggedOut>>
  /\ OnlyApp

\* handleLogin: app.accounts[apiKey] = db; "Login successful".
LoginRegister(h) ==
  /\ hpc[h] = "register"
  /\ accBusy[h] = "write"
  /\ accBusy' = [accBusy EXCEPT ![h] = "none"]
  /\ loggedOut' = loggedOut \ {DeriveAPIKey(hCred[h])}
  /\ accounts' = [accounts EXCEPT ![DeriveAPIKey(hCred[h])] = hNew[h]]
  /\ hpc' = [hpc EXCEPT ![h] = "done"]
  /\ hRes' = [hRes EXCEPT ![h] = "ok"]
  /\ UNCHANGED <<clients, appFiles, hCred, hSign, hNew, hDl, hFiles, hCons, regVars>>
  /\ OnlyApp

\* The access to app.accounts a request makes next: the lookups of
\* handleLogin, handleLogout and authMiddleware read the map, the assignment of
\* handleLogin and the delete of handleLogout write it.
NextAccess(p) ==
  IF p \in Handlers
  THEN CASE hpc[p] \in {"idle", "done"} -> "read"
         [] hpc[p] = "register" -> "write"
         [] OTHER -> "none"
  ELSE IF p = "lo"
  THEN CASE lpc \in {"idle", "done"} -> "read"
         [] lpc = "delete" -> "write"
         [] OTHER -> "none"
  ELSE "read"

\* A request enters its next access to app.accounts. The map has no lock:
\* nothing makes it wait for the accesses other requests are inside of.
AccessBegin(p) ==
  /\ accBusy[p] = "none" /\ NextAccess(p) # "none"
  /\ accBusy' = [accBusy EXCEPT ![p] = NextAccess(p)]
  /\ UNCHANGED <<accounts, clients, appFiles, hpc, hCred, hSign, hNew, hDl, hFiles,
                 hRes, hCons, regVars, loggedOut>>
  /\ OnlyApp

\* A write of the map overlaps another access: the runtime may detect it and
\* end the process ("fatal error: concurrent map read and map write").
AppFatal ==
  /\ \E p, r \in AppProcs : p # r /\ accBusy[p] = "write" /\ accBusy[r] \in {"read", "write"}
  /\ accBusy' = [p \in AppProcs |-> "dead"]
  /\ UNCHANGED <<accounts, clients, appFiles, hpc, hCred, hSign, hNew, hDl, hFiles,
                 hRes, hCons, regVars, loggedOut>>
  /\ OnlyApp

\* handleLogout: `db, exists := app.accounts[apiKey]`; without an entry it
\* answers 401 "Not logged in".
LogoutLookup(k) ==
  /\ lpc \in {"idle", "done"}
  /\ accBusy["lo"] = "read"
  /\ accBusy' = [accBusy EXCEPT !["lo"] = "none"]
  /\ lKey' = k /\ lDb' = accounts[k]
  /\ IF accounts[k] # NoClient
     THEN lpc' = "cleanup" /\ lRes' = None
     ELSE lpc' = "done" /\ lRes' = "401"
  /\ UNCHANGED <<accounts, clients, appFiles, hpc, hCred, hSign, hNew, hDl, hFiles,
                 hRes, hCons, qKey, qRes, loggedOut>>
  /\ OnlyApp

\* handleLogout: db.cleanUp(), the closeDB of the client the lookup found.
LogoutCleanUp ==
  /\ lpc = "cleanup" /\ Running("lo")
  /\ clients' = [clients EXCEPT ![lDb].dbOpen = FALSE]
  /\ lpc' = "delete"
  /\ UNCHANGED <<accounts, appFiles, hpc, hCred, hSign, hNew, hDl, hFiles, hRes, hCons,
                 accBusy, lKey, lDb, lRes, qKey, qRes, loggedOut>>
  /\ OnlyApp

\* Mutant of AfterDelete: the entry stays.
AfterDelete_Keep(acc, k) == acc

\* delete(app.accounts, apiKey).
AfterDelete(acc, k) == [acc EXCEPT ![k] = NoClient]

\* handleLogout: delete(app.accounts, apiKey), then "Logout successful".
LogoutDelete ==
  /\ lpc = "delete"
  /\ accBusy["lo"] = "write"
  /\ accBusy' = [accBusy EXCEPT !["lo"] = "none"]
  /\ accounts' = AfterDelete(accounts, lKey)
  /\ loggedOut' = loggedOut \cup {lKey}
  /\ lpc' = "done" /\ lRes' = "ok"
  /\ UNCHANGED <<clients, appFiles, hpc, hCred, hSign, hNew, hDl, hFiles, hRes, hCons,
                 lKey, lDb, qKey, qRes>>
  /\ OnlyApp

\* authMiddleware: `client, exists := app.accounts[apiKey]`; without an entry
\* it answers 401, with one it calls the handler with the client.
AuthLookup(k) ==
  /\ accBusy["q"] = "read"
  /\ accBusy' = [accBusy EXCEPT !["q"] = "none"]
  /\ qKey' = k
  /\ qRes' = IF accounts[k] # NoClient THEN "handler" ELSE "401"
  /\ UNCHANGED <<accounts, clients, appFiles, hpc, hCred, hSign, hNew, hDl, hFiles,
                 hRes, hCons, lpc, lKey, lDb, lRes, loggedOut>>
  /\ OnlyApp

\* =============================================================== scope keys
Principals == {1, 2}
\* The empty string: a key, path or cache key not computed yet.
NoKey == <<>>
\* The code points emails are made of: 'A', 'B', 'a', '@'.
Runes == {65, 66, 97, 64}
\* Emails: the non-empty rune sequences of up to MaxEmailLen runes.
Emails == UNION {[1..n -> Runes] : n \in 1..MaxEmailLen}

\* hashProfileDirKey's loop: hash = int(r) + ((hash << 5) - hash) over the
\* runes of the email, from hash = 0. (Go's int does not wrap for these lengths.)
RECURSIVE HashRunes(_, _)
HashRunes(e, h) ==
  IF e = <<>> THEN h
  ELSE HashRunes(Tail(e), Head(e) + ((h * 32) - h))

\* fmt.Sprintf("%x", hash) for hash >= 0: the hexadecimal digits, most
\* significant first.
RECURSIVE Hex(_)
Hex(n) == IF n < 16 THEN <<n>> ELSE Append(Hex(n \div 16), n % 16)

HashProfileDirKey(e) == Hex(HashRunes(e, 0))

\* c.dbPath = filepath.Join(dbDir, "migaku-"+key+".db")
DbPath(key) == <<"migoku-db/migaku-", key, ".db">>

\* scopedCacheKey: "client:" + client.key + ":" + key
ScopedCacheKey(ckey, key) == <<"client:", ckey, ":", key>>

\* The other specifications do not look at emails.
SameEmails == [i \in Principals |-> <<65>>]

KeysInit ==
  /\ kEmail \in [Principals -> Emails]
  /\ kKey = [i \in Principals |-> NoKey]
  /\ kPath = [i \in Principals |-> NoKey]
  /\ kScoped = [i \in Principals |-> NoKey]

\* NewMigakuClient for principal i: key := hashProfileDirKey(email); c.key, c.dbPath.
KeyDerive(i) ==
  /\ kKey[i] = NoKey
  /\ kKey' = [kKey EXCEPT ![i] = HashProfileDirKey(kEmail[i])]
  /\ kPath' = [kPath EXCEPT ![i] = DbPath(HashProfileDirKey(kEmail[i]))]
  /\ UNCHANGED <<kEmail, kScoped>>
  /\ OnlyKeys

\* A cached getter for principal i's client computes its cache key.
KeyScope(i) ==
  /\ kKey[i] # NoKey /\ kScoped[i] = NoKey
  /\ kScoped' = [kScoped EXCEPT ![i] = ScopedCacheKey(kKey[i], "decks")]
  /\ UNCHANGED <<kEmail, kKey, kPath>>
  /\ OnlyKeys

\* ============================================================ normalizeRow
\* The columns of a fetched row looked at here: two of the boolean columns and
\* one other.
Columns == {"hasCard", "isModern", "created"}

\* coerceInt64Value's case list.
BoolColumns == {"hasCard", "tracked", "isModern", "isPendingEnqueue", "isPendingApply"}

\* A cell as the driver hands it out: its dynamic type, its number (the whole
\* part for a float64, 1 or 0 for a bool, the content for text) and, for a
\* float64, its first decimal.
Cell(t, v, frac) == [t |-> t, v |-> v, frac |-> frac]
NilCell == Cell("nil", 0, 0)
Cells ==
  {NilCell, Cell("bytes", 1, 0), Cell("string", 1, 0)}
    \cup {Cell(t, v, 0) : t \in {"int64", "int"}, v \in 0..MaxCell}
    \cup {Cell("float64", v, f) : v \in 0..MaxCell, f \in {0, 5}}

\* The empty map.
NoRow == <<>>

\* coerceInt64Value: value != 0 for the boolean columns, the int64 otherwise.
CoerceInt64Value(key, v) ==
  IF key \in BoolColumns THEN Cell("bool", IF v # 0 THEN 1 ELSE 0, 0)
  ELSE Cell("int64", v, 0)

\* normalizeRow's type switch on one value; int64(v) of a float64 drops its
\* decimals.
NormalizeValue(key, c) ==
  CASE c.t = "bytes" -> Cell("string", c.v, 0)
    [] c.t \in {"int64", "int", "float64"} -> CoerceInt64Value(key, c.v)
    [] OTHER -> c

\* normalizeRow: the keys with a non-nil value, each normalized.
NormalizeRow(raw) ==
  [k \in {x \in DOMAIN raw : raw[x].t # "nil"} |-> NormalizeValue(k, raw[k])]

RowsInit == nrRaw = NoRow /\ nrOut = NoRow /\ nrPc = "idle"

\* lookupWordRecord: runReadRow returns a row.
RowFetch(raw) ==
  /\ nrPc = "idle"
  /\ nrRaw' = raw /\ nrOut' = NoRow /\ nrPc' = "fetched"
  /\ OnlyRows

\* lookupWordRecord: payload := normalizeRow(raw).
RowNormalize ==
  /\ nrPc = "fetched"
  /\ nrOut' = NormalizeRow(nrRaw) /\ nrPc' = "done"
  /\ UNCHANGED nrRaw
  /\ OnlyRows

\* =========================================================== GetStudyStats
\* The repository queries of one GetStudyStats call followed here (the code
\* makes nine, one runQuery after the other).
NStatQueries == 2
StatsKey == "stats"

StatsInit == stPc = "idle" /\ stObs = <<>>

\* GetStudyStats: s.cache.Get(cacheKey); a hit is returned, a miss goes on to
\* the queries.
StatsGet ==
  /\ stPc = "idle"
  /\ cache' = CacheAfterGet(cache, StatsKey, now)
  /\ stPc' = IF GetterHit(CacheLookup(cache, StatsKey, now)) THEN "done" ELSE "query"
  /\ UNCHANGED <<stObs, svcVars, lastRefresh, nextTick>>
  /\ OnlyStats

\* GetStudyStats: the next runQuery; runReadQuery takes the read lock, reads
\* the mirror as it is now and releases the lock when it returns.
StatsQuery ==
  /\ stPc = "query"
  /\ stObs' = Append(stObs, mirror)
  /\ stPc' = IF Len(stObs) + 1 = NStatQueries THEN "set" ELSE "query"
  /\ UNCHANGED <<cache, svcVars, lastRefresh, nextTick>>
  /\ OnlyStats

\* GetStudyStats: s.cache.Set(cacheKey, stats); return stats.
StatsSet ==
  /\ stPc = "set"
  /\ cache' = CacheAfterSet(cache, StatsKey, updEpoch, now, CacheTTL)
  /\ stPc' = "done"
  /\ UNCHANGED <<stObs, svcVars, lastRefresh, nextTick>>
  /\ OnlyStats

\* ================================================================== locks
\* client.mu and Cache.mu are sync.RWMutex, FirebaseAuthToken.mu a sync.Mutex.
Locks == {"client", "token", "cache"}
\* A cached getter, a word-status write, the refresh loop and Close.
LkProcs == {"getter", "writer", "loop", "closer"}

Acq(l, m) == <<"acq", l, m>>
Rel(l, m) == <<"rel", l, m>>
Hold(l, m) == <<Acq(l, m), Rel(l, m)>>

\* FirebaseAuthToken.get and refresh: t.mu.Lock(), deferred Unlock.
TokenGetOps == Hold("token", "W")
\* doAuthorizedJSONRequest: s.auth.get, and s.auth.refresh after a 401 or 403.
AuthorizedOps == TokenGetOps \o TokenGetOps
\* Cache.Get; Cache.Set and Cache.Clear.
CacheGetOps == Hold("cache", "R")
CacheSetOps == Hold("cache", "W")
\* isRefreshStale.
IsStaleOps == Hold("client", "R")

\* Mutant of RefreshDBLockedOps: the session is read under the read lock, as
\* refreshDB does.
RefreshDBLockedOps_RLock == Hold("client", "R") \o AuthorizedOps

\* refreshDBLocked, called with client.mu held: c.session is read directly and
\* ForceDownloadSRSDB called.
RefreshDBLockedOps == AuthorizedOps

\* refreshDB: the session under RLock, the download, the install under Lock.
RefreshDBOps == Hold("client", "R") \o AuthorizedOps \o Hold("client", "W")
\* runReadQuery / runReadRow with client.db set: the query under RLock.
ReadSharedOps == Hold("client", "R")
\* runReadQuery / runReadRow with client.db nil: RLock, RUnlock, Lock,
\* ensureDBLocked (at most a refreshDBLocked), the query, Unlock.
ReadExclusiveOps ==
  Hold("client", "R") \o <<Acq("client", "W")>> \o RefreshDBLockedOps
    \o <<Rel("client", "W")>>
\* runWriteQuery: Lock, ensureDBLocked, the statement, Unlock.
WriteQueryOps == <<Acq("client", "W")>> \o RefreshDBLockedOps \o <<Rel("client", "W")>>

\* The calls a goroutine can make, as the lock operations they perform in order.
Scripts(g) ==
  CASE g = "getter" -> {CacheGetOps \o ReadSharedOps \o CacheSetOps,
                        CacheGetOps \o ReadExclusiveOps \o CacheSetOps}
    [] g = "writer" -> {IsStaleOps \o RefreshDBOps \o ReadSharedOps \o AuthorizedOps
                          \o WriteQueryOps \o CacheSetOps}
    [] g = "loop" -> {IsStaleOps, IsStaleOps \o RefreshDBOps}
    [] g = "closer" -> {<< <<"wait", "loop", "W">> >> \o Hold("client", "W")}

LkCalled(g) == lkPos[g] > 0
LkDone(g) == LkCalled(g) /\ lkPos[g] > Len(lkScript[g])
LkHolds(g, l) == lkW[l] = g \/ g \in lkR[l]

LocksInit ==
  /\ lkScript = [g \in LkProcs |-> <<>>]
  /\ lkPos = [g \in LkProcs |-> 0]
  /\ lkW = [l \in Locks |-> None]
  /\ lkR = [l \in Locks |-> {}]
  /\ lkWait = [l \in Locks |-> {}]

\* The goroutine makes one of its calls.
LockCall(g, s) ==
  /\ lkPos[g] = 0
  /\ s \in Scripts(g)
  /\ lkScript' = [lkScript EXCEPT ![g] = s]
  /\ lkPos' = [lkPos EXCEPT ![g] = 1]
  /\ UNCHANGED <<lkW, lkR, lkWait>>
  /\ OnlyLocks

\* Lock(): taken when nobody holds the lock; otherwise the goroutine blocks,
\* and from then on new readers block behind it.
LockAcquire(g) ==
  /\ LkCalled(g) /\ ~LkDone(g)
  /\ LET op == lkScript[g][lkPos[g]] l == op[2] IN
       /\ op[1] = "acq" /\ op[3] = "W"
       /\ IF lkW[l] = None /\ lkR[l] = {}
          THEN /\ lkW' = [lkW EXCEPT ![l] = g]
               /\ lkWait' = [lkWait EXCEPT ![l] = @ \ {g}]
               /\ lkPos' = [lkPos EXCEPT ![g] = @ + 1]
          ELSE /\ g \notin lkWait[l]
               /\ lkWait' = [lkWait EXCEPT ![l] = @ \cup {g}]
               /\ UNCHANGED <<lkW, lkPos>>
  /\ UNCHANGED <<lkScript, lkR>>
  /\ OnlyLocks

\* RLock(): taken when no goroutine holds the lock exclusively or waits for it.
LockAcquireShared(g) ==
  /\ LkCalled(g) /\ ~LkDone(g)
  /\ LET op == lkScript[g][lkPos[g]] l == op[2] IN
       /\ op[1] = "acq" /\ op[3] = "R"
       /\ lkW[l] = None /\ lkWait[l] = {}
       /\ lkR' = [lkR EXCEPT ![l] = @ \cup {g}]
  /\ lkPos' = [lkPos EXCEPT ![g] = @ + 1]
  /\ UNCHANGED <<lkScript, lkW, lkWait>>
  /\ OnlyLocks

\* Unlock() / RUnlock().
LockRelease(g) ==
  /\ LkCalled(g) /\ ~LkDone(g)
  /\ LET op == lkScript[g][lkPos[g]] l == op[2] IN
       /\ op[1] = "rel"
       /\ IF op[3] = "W"
          THEN lkW' = [lkW EXCEPT ![l] = None] /\ UNCHANGED lkR
          ELSE lkR' = [lkR EXCEPT ![l] = @ \ {g}] /\ UNCHANGED lkW
  /\ lkPos' = [lkPos EXCEPT ![g] = @ + 1]
  /\ UNCHANGED <<lkScript, lkWait>>
  /\ OnlyLocks

\* Close: refreshStop(), then refreshWg.Wait() returns once the loop goroutine,
\* whose calls fail on the cancelled context, has returned.
LockWaitGroup(g) ==
  /\ LkCalled(g) /\ ~LkDone(g)
  /\ LET op == lkScript[g][lkPos[g]] IN
       op[1] = "wait" /\ LkDone(op[2])
  /\ lkPos' = [lkPos EXCEPT ![g] = @ + 1]
  /\ UNCHANGED <<lkScript, lkW, lkR, lkWait>>
  /\ OnlyLocks

\* One step of a goroutine.
LockStep(g) ==
  \/ \E s \in Scripts(g) : LockCall(g, s)
  \/ LockAcquire(g)
  \/ LockAcquireShared(g)
  \/ LockRelease(g)
  \/ LockWaitGroup(g)

\* ========================================================= specifications
NextCache ==
  \/ Tick
  \/ \E g \in CProcs, k \in Keys : CacheGetRLock(g, k)
  \/ \E g \in CProcs : CacheGetBody(g)
  \/ \E g \in CProcs : CacheGetFatal(g)
  \/ \E g \in CProcs, k \in Keys, v \in Vals : CacheSet(g, k, v)
  \/ \E g \in CProcs : CacheClear(g)

\* Every word has an ordinary row: the mirror the other components start with.
PlainRows == [w \in Words |-> InitRow("plain")]

InitAll == now = 0 /\ refreshTTL = CacheTTL /\ CacheInit /\ TokenInit /\ ClientInit /\ ServiceInit /\ mirror = PlainRows
           /\ AppInit /\ SessionInit /\ KeysInit /\ RowsInit /\ StatsInit /\ LocksInit /\ kEmail = SameEmails

SpecCache == InitAll /\ [][NextCache]_vars

NextToken ==
  \/ Tick
  \/ \E p \in TProcs, op \in {"get", "refresh"} : TokenCall(p, op)
  \/ \E p \in TProcs : TokenGetFresh(p)
  \/ \E p \in TProcs : TokenRenewStart(p)
  \/ \E p \in TProcs, e \in ExpiresInVals : TokenRenewOk(p, e)
  \/ \E p \in TProcs, f \in RenewFailures : TokenRenewFail(p, f)

SpecToken == InitAll /\ [][NextToken]_vars

\* One authorized request of a session, beside another goroutine's token calls.
NextSession ==
  \/ Tick
  \/ ReqBegin
  \/ ReqGetFailed
  \/ \E r \in Statuses_HTTP \cup {NetErr} : ReqSendFirst(r)
  \/ ReqRefreshFailed
  \/ \E r \in Statuses_HTTP \cup {NetErr} : ReqSendSecond(r)
  \/ \E p \in TProcs \ {ReqProc}, op \in {"get", "refresh"} : TokenCall(p, op)
  \/ \E p \in TProcs : TokenGetFresh(p)
  \/ \E p \in TProcs : TokenRenewStart(p)
  \/ \E p \in TProcs, e \in ExpiresInVals : TokenRenewOk(p, e)
  \/ \E p \in TProcs, f \in RenewFailures : TokenRenewFail(p, f)

SpecSession == InitAll /\ [][NextSession]_vars

Next ==
  \/ Tick
  \/ LoopTick
  \/ LoopStop
  \/ WriteRequest
  \/ \E p \in Refreshers : RefreshCheckStale(p)
  \/ \E p \in Refreshers : RefreshStart(p)
  \/ \E p \in Refreshers : DownloadOk(p)
  \/ \E p \in Refreshers : DownloadFail(p)
  \/ \E p \in Refreshers : WriteTmpBegin(p)
  \/ \E p \in Refreshers : WriteTmpFail(p)
  \/ \E p \in Refreshers : WriteTmpAbort(p)
  \/ \E p \in Refreshers : WriteTmpEnd(p)
  \/ \E p \in Refreshers : OpenTmp(p)
  \/ \E p \in Refreshers : OpenTmpFail(p)
  \/ \E p \in Refreshers : InstallSwap(p)
  \/ \E p \in Refreshers : InstallRenameFail(p)
  \/ ReadBegin
  \/ ReadEnd
  \/ ReadLockedBegin
  \/ ReadLockedEnd
  \/ CloseStop
  \/ CloseWaitAndCleanUp
  \/ Logout

Spec == InitAll /\ [][Next]_vars

\* The client with its refresh loop as the only refresher, followed over two
\* ticks and through the loss of the file at dbPath.
NextLoop ==
  \/ TickLoop
  \/ LoopTick
  \/ LoopStop
  \/ \E p \in Refreshers : RefreshCheckStale(p)
  \/ \E p \in Refreshers : RefreshStart(p)
  \/ \E p \in Refreshers : DownloadOk(p)
  \/ \E p \in Refreshers : DownloadFail(p)
  \/ \E p \in Refreshers : WriteTmpBegin(p)
  \/ \E p \in Refreshers : WriteTmpFail(p)
  \/ \E p \in Refreshers : WriteTmpAbort(p)
  \/ \E p \in Refreshers : WriteTmpEnd(p)
  \/ \E p \in Refreshers : OpenTmp(p)
  \/ \E p \in Refreshers : OpenTmpFail(p)
  \/ \E p \in Refreshers : InstallSwap(p)
  \/ \E p \in Refreshers : InstallRenameFail(p)
  \/ ReadBegin
  \/ ReadEnd
  \/ ReadLockedBegin
  \/ ReadLockedEnd
  \/ FileCleaned
  \/ ReadLockedRefresh
  \/ LockedDownloadOk
  \/ LockedDownloadFail
  \/ CloseStop
  \/ CloseWaitAndCleanUp
  \/ Logout

SpecLoop == InitAll /\ [][NextLoop]_vars

\* A session opened with ttl = LoopTTL whose refresh loop is the only refresher
\* and in which no refresh fails.
NextStale ==
  \/ TickStale
  \/ LoopTick
  \/ RefreshCheckStale("loop")
  \/ RefreshStart("loop")
  \/ DownloadOk("loop")
  \/ WriteTmpBegin("loop")
  \/ WriteTmpEnd("loop")
  \/ OpenTmp("loop")
  \/ InstallSwap("loop")
  \/ ReadBegin
  \/ ReadEnd

InitStale == now = 0 /\ refreshTTL = LoopTTL /\ CacheInit /\ TokenInit /\ ClientInit
             /\ ServiceInit /\ mirror = PlainRows /\ AppInit /\ SessionInit
             /\ KeysInit /\ RowsInit /\ StatsInit /\ LocksInit /\ kEmail = SameEmails
SpecStale == InitStale /\ [][NextStale]_vars

\* The client with its loop and a word status request, and the contexts of
\* the requests being cancelled.
NextCtx ==
  \/ Tick
  \/ LoopTick
  \/ LoopStop
  \/ WriteRequest
  \/ \E q \in Requests : RequestCancel(q)
  \/ \E p \in Refreshers : RefreshCheckStale(p)
  \/ \E p \in Refreshers : RefreshStart(p)
  \/ \E p \in Refreshers : DownloadOk(p)
  \/ \E p \in Refreshers : DownloadCancelled(p)
  \/ \E p \in Refreshers : WriteTmpBegin(p)
  \/ \E p \in Refreshers : WriteTmpEnd(p)
  \/ \E p \in Refreshers : OpenTmp(p)
  \/ \E p \in Refreshers : InstallSwap(p)
  \/ \E p \in Refreshers : InstallRenameFail(p)
  \/ CloseStop
  \/ CloseWaitAndCleanUp

SpecCtx == InitAll /\ [][NextCtx]_vars

\* The ttl values a session is opened with: refresh disabled, or CACHE_TTL.
OpenTTLs == {0, CacheTTL}

\* The client of SpecLoop, opened with any of these ttl values.
InitOpen == now = 0 /\ refreshTTL \in OpenTTLs /\ CacheInit /\ TokenInit /\ ClientInit
            /\ ServiceInit /\ mirror = PlainRows /\ AppInit /\ SessionInit
            /\ KeysInit /\ RowsInit /\ StatsInit /\ LocksInit /\ kEmail = SameEmails
SpecOpen == InitOpen /\ [][NextLoop]_vars

NextKeys ==
  \/ \E i \in Principals : KeyDerive(i)
  \/ \E i \in Principals : KeyScope(i)

InitKeys == now = 0 /\ refreshTTL = CacheTTL /\ CacheInit /\ TokenInit /\ ClientInit /\ ServiceInit
            /\ mirror = PlainRows /\ AppInit /\ SessionInit /\ KeysInit /\ RowsInit /\ StatsInit /\ LocksInit
SpecKeys == InitKeys /\ [][NextKeys]_vars

NextRows ==
  \/ \E raw \in [Columns -> Cells] : RowFetch(raw)
  \/ RowNormalize

SpecRows == InitAll /\ [][NextRows]_vars

NextLocks ==
  \/ \E g \in LkProcs, s \in UNION {Scripts(x) : x \in LkProcs} : LockCall(g, s)
  \/ \E g \in LkProcs : LockAcquire(g)
  \/ \E g \in LkProcs : LockAcquireShared(g)
  \/ \E g \in LkProcs : LockRelease(g)
  \/ \E g \in LkProcs : LockWaitGroup(g)

SpecLocks == InitAll /\ [][NextLocks]_vars

\* The scheduler runs every goroutine that can run, and a lock that is free is
\* given to a goroutine waiting for it.
SpecLocksFair == SpecLocks /\ \A g \in LkProcs : WF_vars(LockStep(g))

\* One GetStudyStats call beside a word-status write and the refresh loop.
NextStats ==
  \/ Tick
  \/ \E cl \in ClientArgs, items \in RawBatches, st \in RawStatuses :
       SvcWriteCall(cl, items, st)
  \/ SvcWriteRefreshCheck
  \/ SvcLoopTick
  \/ \E p \in SRefreshers : SvcDownloadOk(p)
  \/ \E p \in SRefreshers : SvcInstall(p)
  \/ SvcLookup
  \/ SvcPushOk
  \/ SvcUpdate
  \/ SvcClear
  \/ StatsGet
  \/ StatsQuery
  \/ StatsSet

SpecStats == InitAll /\ [][NextStats]_vars

NextService ==
  \/ Tick
  \/ \E cl \in ClientArgs, items \in RawBatches, st \in RawStatuses :
       SvcWriteCall(cl, items, st)
  \/ SvcWriteRefreshCheck
  \/ SvcLoopTick
  \/ \E p \in SRefreshers : SvcDownloadOk(p)
  \/ \E p \in SRefreshers : SvcDownloadFail(p)
  \/ \E p \in SRefreshers : SvcInstall(p)
  \/ SvcLookup
  \/ SvcPushOk
  \/ SvcPushFail
  \/ SvcUpdate
  \/ SvcClear
  \/ SvcReadGet
  \/ SvcReadQuery
  \/ SvcReadSet

NextApp ==
  \/ \E h \in Handlers, pw \in Passwords : LoginCheck(h, pw)
  \/ \E h \in Handlers, o \in {"ok", "rejected", "neterr"} : LoginSignIn(h, o)
  \/ \E h \in Handlers : LoginRefreshOk(h)
  \/ \E h \in Handlers, e \in ConstructErrors : LoginRefreshFail(h, e)
  \/ \E h \in Handlers : LoginRegister(h)
  \/ \E p \in AppProcs : AccessBegin(p)
  \/ AppFatal
  \/ \E k \in Passwords : LogoutLookup(k)
  \/ LogoutCleanUp
  \/ LogoutDelete
  \/ \E k \in Passwords : AuthLookup(k)

SpecApp == InitAll /\ [][NextApp]_vars

InitService == now = 0 /\ refreshTTL = CacheTTL /\ CacheInit /\ TokenInit /\ ClientInit /\ ServiceInit /\ AppInit
               /\ SessionInit /\ KeysInit /\ RowsInit /\ StatsInit /\ LocksInit /\ kEmail = SameEmails
SpecService == InitService /\ [][NextService]_vars

\* ================================================================= claims

\* C4 (cache correctness): a Get(k) that follows a Set(k, v), with no Set(k) or
\* Clear in between, returns (v, true) when it runs strictly before the Set's
\* time plus the cache ttl, and a miss when it runs after that instant.
CacheCorrectness ==
  (cRes.key # None /\ cRes.set.valid) =>
     /\ (cRes.at < cRes.set.at + CacheTTL => (cRes.ok /\ cRes.data = cRes.set.data))
     /\ (cRes.at > cRes.set.at + CacheTTL => ~cRes.ok)

\* A Get that hit an entry set at an earlier clock value, within its ttl.
CacheCorrectnessWitness ==
  /\ cRes.key # None /\ cRes.set.valid
  /\ cRes.set.at < cRes.at /\ cRes.at < cRes.set.at + CacheTTL
  /\ cRes.ok /\ cRes.data = cRes.set.data

\* C1 (atomic swap): while a read query runs on the handle it took from client.db
\* under the read lock, that handle is open and its file holds the complete
\* snapshot it held when the reader took the handle.
AtomicSwap ==
  pc["r"] = "query" =>
     /\ handles[qH].open
     /\ qSnap # 0
     /\ inodes[handles[qH].ino] = qSnap

\* C3 (staleness): no snapshot download is started while db is open and the
\* mirror is younger than ttl minus the 2 second buffer.
StalenessNoDownload ==
  dlLast.dbOpen => dlLast.age >= CacheTTL - StaleBuffer

\* C7 (close stops the loop): once the session is closed, by Close or by logout,
\* the refresh goroutine has returned and no download is started and no snapshot
\* installed for the client any more.
SessionCloseStopsLoop ==
  closed # None => (pc["loop"] = "exited" /\ afterClose = 0)

\* C2 (renewal collapse): when every caller invoked get while the token was
\* expired and before any renewal call was sent, then once all have returned
\* exactly one renewal call has been made and every caller holds the renewed
\* token.
RenewalCollapse ==
  (\A p \in TProcs : /\ tpc[p] = "done" /\ tOp[p] = "get"
                     /\ tEntry[p].expired /\ tEntry[p].calls = 0)
    => /\ renewCalls = 1
       /\ \A p \in TProcs : tRes[p].err = None /\ tRes[p].token = authToken

\* C5 (write invalidation): a cache Get made after setWordStatusItems returned
\* success never hits a value that was computed from the mirror as it was before
\* the last UPDATE of that write.
WriteInvalidation ==
  rdRes.hit => rdRes.tag >= rdRes.ok

\* C6 (write ordering): a read of the mirror never observes a state in which
\* only some rows of a setWordStatusItems batch carry the new status.
WriteOrdering ==
  ~rdObs.partial

\* C9 (not-found write): when an item of setWordStatusItems has no matching row
\* in the mirror, the call returns ErrWordNotFound, and it has called PushSync
\* zero times, executed no UPDATE and not cleared the cache.
NotFoundWrite ==
  /\ wMissing => (wErr = "ErrWordNotFound" /\ spc["w"] = "done")
  /\ wErr = "ErrWordNotFound" => (wCount = NoCount /\ updEpoch = 0)

\* The second item of a batch is the one without a row; a value is cached.
NotFoundWriteWitness ==
  /\ wMissing /\ wErr = "ErrWordNotFound"
  /\ Len(wItems) = 2 /\ Len(wRecs) = 1
  /\ "decks" \in DOMAIN cache
  /\ wCount = NoCount

\* C8 (one session per principal): at most one MigakuClient with a running
\* refresh loop and an open db handle exists for an api key.
OneSessionPerPrincipal ==
  \A k \in Passwords : Cardinality(AliveClients(k)) <= 1

\* C10 (invalid credentials on open): when the sign-in exchange is rejected,
\* NewMigakuClient has returned an error and a nil client, the call has created
\* neither dbPath nor dbPath+".tmp" and has attempted no snapshot download.
InvalidCredentialsOnOpen ==
  \A h \in Handlers :
    hSign[h] = "rejected" =>
      /\ hpc[h] = "done" /\ hRes[h] = "error"
      /\ hNew[h] = NoClient
      /\ hDl[h] = 0
      /\ hFiles[h] = {}

\* A login with the wrong password has been turned down while the account's
\* own login is live and its mirror file exists.
InvalidCredentialsOnOpenWitness ==
  \E h \in Handlers :
    /\ hSign[h] = "rejected" /\ hpc[h] = "done" /\ hRes[h] = "error"
    /\ hNew[h] = NoClient /\ hDl[h] = 0 /\ hFiles[h] = {}
    /\ accounts["good"] # NoClient /\ "db" \in appFiles

\* C11 (failed renewal leaves the credential untouched): a step in which
\* refreshLocked returns an error leaves authToken, refreshToken and expiresAt
\* as they were, and the caller gets the empty token with the error.
FailedRenewalUntouched ==
  [][\A p \in TProcs :
       (tpc[p] = "renewing" /\ tpc'[p] = "done" /\ tRes'[p].err # None)
         => /\ authToken' = authToken
            /\ refreshToken' = refreshToken
            /\ expiresAt' = expiresAt
            /\ tRes'[p].token = 0]_vars

\* A get on an expired token has come back with an error; the stale token and
\* its expiry are still in place.
FailedRenewalUntouchedWitness ==
  \E p \in TProcs :
    /\ tpc[p] = "done" /\ tOp[p] = "get" /\ tRes[p].err # None
    /\ tRes[p].token = 0
    /\ authToken = 1 /\ expiresAt = InitialExpiry /\ now >= expiresAt

\* C12 (fresh credential is returned unchanged): get returns without a renewal
\* call and without changing a field exactly when the token is fresh; a get
\* that renews replaces authToken and sets expiresAt later than now.
FreshCredential ==
  [][\A p \in TProcs :
       /\ (tOp[p] = "get" /\ tpc[p] = "lock" /\ tpc'[p] = "done")
            => /\ TokenFresh(authToken, expiresAt, now)
               /\ UNCHANGED <<authToken, refreshToken, expiresAt, renewCalls>>
       /\ (tOp[p] = "get" /\ tpc[p] = "lock" /\ tpc'[p] = "renewing")
            => ~TokenFresh(authToken, expiresAt, now)
       /\ (tOp[p] = "get" /\ tpc[p] = "renewing" /\ tpc'[p] = "done"
           /\ tRes'[p].err = None)
            => /\ authToken' # authToken
               /\ expiresAt' > now]_vars

BackgroundFailureNotFatal ==
  [][/\ (InRefreshDB("loop") /\ ~InRefreshDB("loop")' /\ rErr'["loop"] \in RefreshErrors)
          => /\ pc'["loop"] = "select"
             /\ UNCHANGED <<nextTick, cancelled, closed, db, fDb>>
             /\ db # 0 => handles'[db] = handles[db]
     /\ pc'["loop"] = "exited" => cancelled']_vars

\* After a failed refresh the loop has taken a later tick and is downloading
\* again, while a read runs on the handle of before.
BackgroundFailureNotFatalWitness ==
  /\ rErr["loop"] \in RefreshErrors
  /\ pc["loop"] = "download"
  /\ closed = None /\ ~cancelled
  /\ db = 1 /\ handles[1].open
  /\ pc["r"] = "query" /\ qH = 1

\* C16 (auth failures are fatal): once a renewal has failed for the session's
\* credential, no further renewal call is sent.
AuthFailureFatal ==
  [][(\E p \in TProcs : tpc[p] = "done" /\ tRes[p].err # None)
       => renewCalls' = renewCalls]_vars

\* C17 as stated (refresh does not block reads while fetching): no goroutine
\* holds the client's exclusive lock while its snapshot download is in progress.
NoDownloadUnderLock ==
  \A p \in Procs : cmuW = p => pc[p] \notin {"download", "ldownload"}

\* C17 (amended): refreshDB never holds the exclusive lock while it downloads,
\* writes or opens the snapshot, so the lock is free for a reader of the current
\* handle unless another reader or an install holds it; a download under the
\* exclusive lock is made only by refreshDBLocked, when client.db is nil.
RefreshDBDownloadsUnlocked ==
  /\ \A p \in Refreshers : InRefreshDB(p) => cmuW # p
  /\ \A p \in Procs : (cmuW = p /\ pc[p] \in {"download", "ldownload"})
                         => (p = "r" /\ pc[p] = "ldownload" /\ db = 0)

\* While the loop's refreshDB is downloading, a read is running on the current
\* handle under the read lock.
RefreshDBDownloadsUnlockedWitness ==
  /\ pc["loop"] = "download"
  /\ pc["r"] = "query" /\ "r" \in cmuR /\ qH = db /\ db # 0 /\ handles[db].open
  /\ cmuW = None

\* C18 (scope keys do not collide): two principals with different emails get
\* different keys, different mirror paths and different cache keys.
ScopeKeysDistinct ==
  (kEmail[1] # kEmail[2] /\ kScoped[1] # NoKey /\ kScoped[2] # NoKey)
    => /\ kKey[1] # kKey[2]
       /\ kPath[1] # kPath[2]
       /\ kScoped[1] # kScoped[2]

\* C19 (cache thread-safety): a step that changes the backing map is taken while
\* no other goroutine holds the cache's lock: the only holder of a read lock at
\* such a step is the goroutine taking it.
MapWriteExclusive ==
  [][cache' # cache => \A g \in cacheMuR : cpc'[g] # cpc[g]]_vars

\* C20 (write-back reflected locally): once setWordStatusItems has returned after
\* a successful PushSync, every pushed record's row in the mirror carries the new
\* knownStatus and tracked values and the call has cleared the cache.
WriteBackReflected ==
  (spc["w"] = "done" /\ wCount.push = 1 /\ wErr \in {"nil", "local"}) =>
     /\ \A i \in 1..Len(wRecs) :
          HasNew(mirror[wRecs[i].word], StatusToUpdate(wStatus))
     /\ wCount.clear = 1

\* C21 (failed push applies nothing): when PushSync has returned an error,
\* setWordStatusItems has returned an error, has run no UPDATE on the mirror and
\* has not cleared the cache.
FailedPushAppliesNothing ==
  wErr = "sync" =>
     /\ spc["w"] = "done"
     /\ wCount.update = 0 /\ wCount.clear = 0 /\ updEpoch = 0

\* A call whose PushSync failed has returned.
FailedPushAppliesNothingWitness ==
  wErr = "sync" /\ wCount.push = 1 /\ spc["w"] = "done" /\ wRecs # <<>>

\* C22 (handle lifecycle), as stated: at every instant at most one db handle is
\* open, a running query's handle is open, and every open handle is the
\* current one.
HandleLifecycle ==
  /\ Cardinality(OpenHandles) <= 1
  /\ pc["r"] \in {"query", "lquery"} => handles[qH].open
  /\ \A h \in OpenHandles : h = db

\* C22 as amended: a running query's handle is open (no handle is closed while
\* a query executes against it), and every open handle is either the current
\* one (c.db) or the newDB of a refreshDB that is waiting for its critical
\* section; every other handle has been closed.
HandleLifecycleAmended ==
  /\ pc["r"] \in {"query", "lquery"} => handles[qH].open
  /\ \A h \in OpenHandles :
        h = db \/ \E p \in Refreshers : pc[p] = "install" /\ rH[p] = h

\* Two refreshes have installed their handles one after the other, the two
\* earlier handles are closed, and a query runs on the current one.
HandleLifecycleAmendedWitness ==
  /\ Len(handles) >= 3 /\ db = 3
  /\ ~handles[1].open /\ ~handles[2].open
  /\ pc["r"] = "query" /\ qH = 3

\* The instant the refresh loop last started a snapshot fetch (the client's
\* first fetch, in NewMigakuClient, when it has started none).
LoopFetchAt == rBase["loop"].last + dlLast.age

\* C23 (bounded staleness through the loop): the loop's refreshDBIfStale skips
\* a tick only when that tick arrived less than a full interval (ttl) after the
\* start of the previous fetch, or when the mirror will, at the ticker's next
\* tick (the next instant at which the loop can start a fetch), be no older
\* than ttl plus the duration of the last refresh.
NoDueTickSkipped ==
  [][(/\ pc["loop"] = "stale" /\ pc'["loop"] = "select"
      /\ dlCount < MaxDownloads
      /\ refreshTTL > 0)
        => \/ (nextTick - refreshTTL) - LoopFetchAt < refreshTTL
           \/ nextTick - lastRefresh <= refreshTTL + (lastRefresh - LoopFetchAt)]_vars

\* C24 (independent cancellation scope): a refresh started by the background
\* loop ends with the error of a cancelled context only when refreshStop was
\* called (by Close); the cancelled context of a request never ends it.
LoopCancelOnlyByClose ==
  [][(pc["loop"] = "download" /\ pc'["loop"] # "download"
        /\ rErr'["loop"] = "cancelled") => cancelled]_vars

\* The loop has installed a snapshot after the contexts of the login request
\* and of a word status request were cancelled, the latter's refresh having
\* ended with the cancellation.
LoopCancelOnlyByCloseWitness ==
  /\ reqDone["login"] /\ reqDone["w"] /\ ~cancelled
  /\ rErr["w"] = "cancelled"
  /\ rErr["loop"] = "nil" /\ rH["loop"] # 0 /\ db = rH["loop"]

\* C25 (one refresh task per open session), as stated: while the session is
\* open (Close has not been called, no logout has closed it) exactly one
\* refresh goroutine of the client exists.
OneRefreshTask ==
  (closed = None /\ ~cancelled) => LoopGoroutines = 1

\* C25 as amended: until Close is called, the client has exactly one refresh
\* goroutine when it was opened with ttl > 0 and none when it was opened with
\* ttl <= 0; once Close has returned it has none.
OneRefreshTaskAmended ==
  /\ ~cancelled => LoopGoroutines = (IF refreshTTL > 0 THEN 1 ELSE 0)
  /\ closed = "close" => LoopGoroutines = 0

\* A session opened with ttl > 0 whose loop is in the middle of its second
\* refresh, the first having failed.
OneRefreshTaskAmendedWitness ==
  /\ refreshTTL > 0 /\ ~cancelled /\ closed = None
  /\ pc["loop"] = "install" /\ rErr["loop"] \in RefreshErrors

\* C26 (a cache hit short-circuits the query): a getter goes on to its
\* repository query only when its cache lookup missed; a getter that returns
\* from a hit returns the cached value and, in that step, runs no query on the
\* mirror and starts no snapshot fetch.
CacheHitShortCircuits ==
  [][/\ (spc["rd"] = "idle" /\ spc'["rd"] = "query")
          => ~CacheLookup(cache, "decks", now).ok
     /\ (spc["rd"] = "idle" /\ rdRes' # rdRes /\ rdRes'.hit)
          => /\ CacheLookup(cache, "decks", now).ok
             /\ rdRes'.tag = cache["decks"].Data
             /\ UNCHANGED <<spc, rdObs, mirror, sDl, lastRefresh>>]_vars

\* A getter has returned, from a hit, the value its earlier query stored.
CacheHitShortCircuitsWitness ==
  /\ rdRes.hit /\ spc["rd"] = "idle"
  /\ "decks" \in DOMAIN cache /\ rdRes.tag = cache["decks"].Data
  /\ rdObs.tag = rdRes.tag

\* C27 (lazy expiry evicts only the expired key): a Get of key k that finds an
\* expired entry removes k and nothing else, any other Get leaves the map as it
\* is, and a step that removes an entry is such a Get or a Clear.
LazyExpiryOnlyExpiredKey ==
  [][/\ \A g \in CProcs :
          (cpc[g] = "get" /\ cpc'[g] = "idle") =>
             IF cKey[g] \in DOMAIN cache /\ EntryExpired(cache[cKey[g]], now)
             THEN /\ DOMAIN cache' = DOMAIN cache \ {cKey[g]}
                  /\ \A x \in DOMAIN cache' : cache'[x] = cache[x]
             ELSE cache' = cache
     /\ (DOMAIN cache \ DOMAIN cache' # {}) =>
          \/ \E g \in CProcs :
                /\ cpc[g] = "get" /\ cpc'[g] = "idle"
                /\ DOMAIN cache \ DOMAIN cache' = {cKey[g]}
                /\ EntryExpired(cache[cKey[g]], now)
          \/ cpc' = cpc /\ cache' = CacheAfterClear(cache)]_vars

\* A Get has evicted the expired entry of "decks" and the entry of "words",
\* expired as well, is still in the map.
LazyExpiryOnlyExpiredKeyWitness ==
  /\ cRes.key = "decks" /\ ~cRes.ok /\ cRes.set.valid
  /\ "decks" \notin DOMAIN cache
  /\ "words" \in DOMAIN cache /\ EntryExpired(cache["words"], now)

\* C28 (renewals are linearized): at most one goroutine is inside refreshLocked
\* at any instant, whether it came through get or through refresh, it holds the
\* token mutex, and authToken and expiresAt change only in a step of the
\* goroutine that holds the mutex.
OneRenewalInFlight ==
  [][/\ Cardinality({p \in TProcs : tpc[p] = "renewing"}) <= 1
     /\ \A p \in TProcs : tpc[p] = "renewing" => tokMu = p
     /\ Cardinality({p \in TProcs : tpc'[p] = "renewing"}) <= 1
     /\ \A p \in TProcs : tpc'[p] = "renewing" => tokMu' = p
     /\ (authToken' # authToken \/ expiresAt' # expiresAt)
          => (tokMu \in TProcs /\ tpc[tokMu] = "renewing" /\ tpc'[tokMu] = "done")]_vars

\* A forced renewal (refresh) is in flight while a get that found the token
\* expired waits for the mutex.
OneRenewalInFlightWitness ==
  \E p, q \in TProcs :
     /\ tpc[p] = "renewing" /\ tOp[p] = "refresh" /\ tokMu = p
     /\ tpc[q] = "lock" /\ tOp[q] = "get"
     /\ ~TokenFresh(authToken, expiresAt, now)

\* C29 (a failed foreground refresh aborts the write): when refreshDBIfStale
\* has failed at the start of setWordStatusItems, the call has returned that
\* error and has looked up no record, pushed nothing, run no UPDATE and not
\* cleared the cache.
RefreshFailureAbortsWrite ==
  wErr = "refresh" =>
     /\ spc["w"] = "done"
     /\ wIdx = 0 /\ wRecs = <<>> /\ ~wMissing
     /\ wCount = NoCount /\ updEpoch = 0
     /\ remote = [w \in Words |-> InitRow(remote[w].kind)]

\* The call has returned the refresh error while the cached reader had stored
\* a value the call would have had to clear.
RefreshFailureAbortsWriteWitness ==
  /\ wErr = "refresh" /\ wItems # <<>> /\ spc["w"] = "done"
  /\ "decks" \in DOMAIN cache

\* C30 (a failed open leaves nothing behind): when NewMigakuClient has
\* returned an error, whether from the sign-in, from MkdirAll or from the first
\* refreshDB, it has started no refresh goroutine, holds no open db handle and
\* has handed out no client.
FailedOpenLeavesNothing ==
  \A h \in Handlers :
    hCons[h].err # None =>
       /\ ~hCons[h].loop /\ ~hCons[h].dbOpen
       /\ hNew[h] = NoClient /\ hRes[h] = "error"

\* A construction failed at the rename, after refreshDB had opened a handle on
\* the temp file, and another failed at the sign-in.
FailedOpenLeavesNothingWitness ==
  \E h, g \in Handlers :
    /\ hCons[h].err = "rename" /\ "tmp" \in hFiles[h]
    /\ hCons[g].err = "signin"

\* C31 (write validation has no side effects): setWordStatusItems answers a nil
\* client with ErrClientNotAuth, otherwise a status that is none of known,
\* learning, ignored, tracked after trimming and lower-casing with
\* ErrInvalidStatus, otherwise an empty item list or an item whose trimmed
\* wordText is empty with ErrWordTextRequired; a call so answered has returned
\* without a refresh, a lookup, a push, an UPDATE or a cache Clear.
ValidationNoSideEffects ==
  LET statusOk == ToLower(TrimSpace(wArgs.status)) \in {Known, Learning, Ignored, Tracked}
      noText == \/ Len(wArgs.items) = 0
                \/ \E i \in 1..Len(wArgs.items) : TrimSpace(wArgs.items[i]) = <<>>
      rejected == wErr \in {"ErrClientNotAuth", "ErrInvalidStatus", "ErrWordTextRequired"}
  IN wArgs # NoArgs =>
       /\ wArgs.client = "nil" => wErr = "ErrClientNotAuth"
       /\ wArgs.client # "nil" /\ ~statusOk => wErr = "ErrInvalidStatus"
       /\ wArgs.client # "nil" /\ statusOk /\ noText => wErr = "ErrWordTextRequired"
       /\ wArgs.client # "nil" /\ statusOk /\ ~noText => ~rejected
       /\ rejected =>
            /\ spc["w"] = "done"
            /\ wItems = <<>> /\ wStatus = None
            /\ wIdx = 0 /\ wRecs = <<>> /\ ~wMissing
            /\ wCount = NoCount /\ updEpoch = 0
            /\ remote = [w \in Words |-> InitRow(remote[w].kind)]

\* A call with a client, an unknown status and a blank item has been answered
\* ErrInvalidStatus while the cache held a value.
ValidationNoSideEffectsWitness ==
  /\ wArgs.client = "client"
  /\ wArgs.status = <<"n", "e", "w">>
  /\ wArgs.items = << <<" ">> >>
  /\ wErr = "ErrInvalidStatus"
  /\ "decks" \in DOMAIN cache

\* What a key of normalizeRow's result holds; a missing key reads as nil.
ResultAt(k) == IF k \in DOMAIN nrOut THEN nrOut[k] ELSE NilCell

\* C32 (row normalization): normalizeRow turns the integer of a boolean column
\* into (value != 0) and gives back the value of every other column as it was
\* (the same number or content, whatever Go type carries it; nil as nil).
RowNormalization ==
  nrPc = "done" =>
    \A k \in DOMAIN nrRaw :
      /\ k \in BoolColumns /\ nrRaw[k].t \in {"int64", "int"} =>
           ResultAt(k) = Cell("bool", IF nrRaw[k].v # 0 THEN 1 ELSE 0, 0)
      /\ k \notin BoolColumns =>
           /\ ResultAt(k).v = nrRaw[k].v /\ ResultAt(k).frac = nrRaw[k].frac
           /\ (ResultAt(k).t = "nil") = (nrRaw[k].t = "nil")

\* C33 (rejected after logout): once handleLogout has succeeded for an api key
\* and no login has registered the key since, a request through authMiddleware
\* with that key is answered 401 and does not reach its handler.
RejectedAfterLogout ==
  [][\A k \in Passwords :
       (/\ accBusy["q"] = "read" /\ accBusy'["q"] = "none"
        /\ qKey' = k /\ k \in loggedOut)
         => qRes' = "401"]_vars

\* The logout for the key of a constructed client has succeeded, the client's
\* db is closed, no login has registered the key since, and the last request
\* through authMiddleware with that key was answered 401.
RejectedAfterLogoutWitness ==
  /\ lRes = "ok" /\ lKey = "good" /\ "good" \in loggedOut
  /\ qKey = "good" /\ qRes = "401"
  /\ \E i \in 1..Len(clients) : clients[i].key = "good" /\ ~clients[i].dbOpen

\* C38 (registry access is race-free): while a request is inside a write of
\* app.accounts, no other request is inside a read or a write of it.
RegistryAccessExclusive ==
  \A p, r \in AppProcs :
    (p # r /\ accBusy[p] = "write") => accBusy[r] \notin {"read", "write"}

\* C34 (concurrent refreshes do not interfere): between the end of its
\* os.WriteFile and its install, the file at tmpPath is the one a refreshDB
\* call wrote, holding the complete snapshot it downloaded; and a call that
\* returns nil has installed a handle on that snapshot.
ConcurrentRefreshesIndependent ==
  [][\A p \in Refreshers :
       /\ pc[p] \in {"open", "install"} =>
            (fTmp = rIno[p] /\ inodes[rIno[p]] = rData[p])
       /\ (pc[p] = "install" /\ pc'[p] # "install" /\ rErr'[p] = "nil") =>
            inodes'[handles'[db'].ino] = rData[p]]_vars

\* C35 (writes are not reverted by a concurrent refresh): once
\* setWordStatusItems has returned nil, a snapshot install leaves every row of
\* the mirror that carries the written status carrying it.
WriteNotReverted ==
  [][\A p \in SRefreshers :
       (/\ spc[p] = "install" /\ spc'[p] # "install"
        /\ wErr = "nil" /\ spc["w"] = "done")
         => \A i \in 1..Len(wRecs) :
              HasNew(mirror[wRecs[i].word], StatusToUpdate(wStatus))
                => HasNew(mirror'[wRecs[i].word], StatusToUpdate(wStatus))]_vars

\* C36 (closed stays closed): once closeDB has run for the client, by Close or
\* by logout, client.db is nil and stays nil, and no snapshot is downloaded or
\* installed for the client any more.
ClosedStaysClosed ==
  closed # None => (db = 0 /\ OpenHandles = {} /\ afterClose = 0)

\* C37 (single-snapshot statistics): the StudyStats value a GetStudyStats call
\* stores in the cache was computed from queries that all read the same
\* mirror.
SingleSnapshotStats ==
  (stPc = "done" /\ stObs # <<>>) =>
     \A i, j \in 1..Len(stObs) : stObs[i] = stObs[j]

\* The goroutine is about to take a lock it already holds.
LkReacquires(g) ==
  /\ LkCalled(g) /\ ~LkDone(g)
  /\ lkScript[g][lkPos[g]][1] = "acq"
  /\ LkHolds(g, lkScript[g][lkPos[g]][2])

\* C39 (deadlock freedom and termination of Close): no goroutine takes a lock
\* it holds, and the getter, the write, the refresh loop and Close, whatever
\* calls they make and however they interleave on client.mu,
\* FirebaseAuthToken.mu and Cache.mu, all return.
NoDeadlockCloseReturns ==
  /\ [](\A g \in LkProcs : ~LkReacquires(g))
  /\ <>(\A g \in LkProcs : LkDone(g))

\* The refresh loop has returned and Close is blocked in client.mu.Lock()
\* behind the write, which holds the lock and is about to take the token's;
\* the getter is at an RLock() that has to wait behind Close.
NoDeadlockCloseReturnsWitness ==
  /\ LkDone("loop")
  /\ "closer" \in lkWait["client"]
  /\ lkW["client"] = "writer"
  /\ lkScript["writer"][lkPos["writer"]] = Acq("token", "W")
  /\ LkCalled("getter") /\ ~LkDone("getter")
  /\ lkScript["getter"][lkPos["getter"]] = Acq("client", "R")

\* C40 (lastRefresh only moves forward and only on install): a step that
\* changes client.lastRefresh moves it to a later time and is the critical
\* section that sets client.db to a handle opened by that refresh; failed
\* refreshes, queries, logout and Close leave it alone.
LastRefreshOnlyOnInstall ==
  [][lastRefresh' # lastRefresh =>
       /\ lastRefresh' > lastRefresh
       /\ dbEpoch' = dbEpoch + 1
       /\ db' # 0 /\ db' # db
       /\ handles'[db'].open
       /\ \/ \E p \in Refreshers : pc[p] = "install" /\ db' = rH[p]
          \/ pc["r"] = "ldownload" /\ db' = Len(handles) + 1]_vars

\* lastRefresh has moved twice, once in refreshDB's install and once in
\* refreshDBLocked's, and a refresh has failed in between or since.
LastRefreshOnlyOnInstallWitness ==
  /\ dbEpoch >= 2
  /\ lastRefresh > 0
  /\ pc["r"] = "lquery"
  /\ \E p \in Refreshers : rErr[p] \notin {"nil", None}

====
